---- MODULE Spec2Model ----
(***************************************************************************)
(* A model of the P2P dataset generator: the seeded entity generators, the *)
(* constraint pass, the anomaly injector, the chunked orchestration of     *)
(* runGeneration and the manifest aggregator.                              *)
(*                                                                         *)
(* Conventions.                                                            *)
(*  - An identifier is the triple <<prefix, year, sequence>> that the      *)
(*    formatters of schemas.ts print (zero padding is injective, so the    *)
(*    triple decides equality of the printed strings).  An undefined       *)
(*    reference is <<>>.                                                   *)
(*  - An optional scalar field that is undefined holds NoVal.              *)
(*  - A date is a day number, DaysPerYear days to a year.                  *)
(*  - A call of the seeded rng() is a choice (\E) over the values the      *)
(*    code derives from it; faker and the wall clock are choices too, but  *)
(*    they are not replayed from the seed (see the determinism section).   *)
(*  - An array of objects is a sequence of records in creation order; the  *)
(*    order of the injector's working copies, which it sorts in place, is  *)
(*    kept apart in vOrder / iOrder / pOrder (index sequences).            *)
(***************************************************************************)
EXTENDS Integers, Sequences, FiniteSets, TLC

MaxVendors == 2
MaxPOs == 2

DaysPerYear == 365

VARIABLES
    pc,             \* position of the modelled entry point
    cfg,            \* GeneratorConfig of the run
    acfg,           \* AnomalyConfig: a function from the keys present to their percentage
    vendors, purchaseOrders, grns, invoices, payments,
    vOrder, iOrder, pOrder,    \* order of the injector's working copies
    truthRecords,
    manifest,
    err,            \* the error thrown, or "none"
    input,          \* the dataset as the caller handed it to injectAnomalies
    prev,           \* the dataset and truth list before the last injector call
    last,           \* the key of the last injector call reached
    ctx,            \* the generator's context: loop counters, sequence counters, seeded draws
    first,          \* the output of the first of two executions
    taxonomy,       \* the test-step taxonomy: ids per anomaly key, ids with metadata
    prHeaders,      \* purchase requisitions handed to the process-layer injectors
    prLines,        \* the lines of the purchase requisitions
    quotations,     \* the quotations of the purchase orders
    written,        \* the rows handed to each CSV stream, as serialized at that call
    streams         \* the CSV write streams: rows on disk, ended, finished

vars == <<pc, cfg, acfg, vendors, purchaseOrders, grns, invoices, payments,
          vOrder, iOrder, pOrder, truthRecords, manifest, err, input, prev, last,
          ctx, first, taxonomy, prHeaders, prLines, quotations, written, streams>>

NoVal == 0
Undef == <<>>

Min(a, b) == IF a < b THEN a ELSE b
Max(a, b) == IF a > b THEN a ELSE b
Range(s) == {s[i] : i \in DOMAIN s}
Take(s, n) == SubSeq(s, 1, Min(n, Len(s)))

\* Math.floor(n * percentage / 100)
PctCount(n, percentage) == (n * percentage) \div 100

\* Array.prototype.sort(() => rng() - 0.5): some permutation of the elements
Shuffles(S) ==
    {p \in [1..Cardinality(S) -> S] : \A i, j \in 1..Cardinality(S) : i # j => p[i] # p[j]}

Identity(n) == [i \in 1..n |-> i]

----------------------------------------------------------------------------
(* Identifier formatters (schemas.ts)                                      *)

generateVendorId(sequence) == <<"VND", 0, sequence>>
generatePONumber(year, sequence) == <<"PO", year, sequence>>
generateGRNNumber(year, sequence) == <<"GRN", year, sequence>>
generateInvoiceNumber(year, sequence) == <<"INV", year, sequence>>
generatePaymentId(year, sequence) == <<"PAY", year, sequence>>

getFullYear(date) == date \div DaysPerYear
\* the date `days` days before
subtractDays(date, days) == date - days

addDays(date, days) == date + days

----------------------------------------------------------------------------
(* CSV writer (csvWriter.ts): one write stream per output file.            *)

Files == {"vendors", "purchaseOrders", "grns", "invoices", "payments", "truth"}

NothingWritten == [f \in Files |-> <<>>]

\* no stream has been created: no row is on disk, end() has not been called
NoStreams == [flushed |-> [f \in Files |-> 0], ended |-> FALSE, finished |-> FALSE]

\* fields that may hold undefined: as a number, as an identifier
OptionalValues == {"pan", "gstin", "ifsc", "verified_by", "verification_date"}
OptionalIds == {"grn_no"}

\* toCsvCell(val): the empty cell for undefined, else the text of the value
toCsvCell(val, undefined) == IF val = undefined THEN <<>> ELSE <<val>>

\* writeRow: the cells of one record, serialized when the row is written
CsvRow(rec) ==
    [f \in DOMAIN rec |->
        IF f \in OptionalValues THEN toCsvCell(rec[f], NoVal)
        ELSE IF f \in OptionalIds THEN toCsvCell(rec[f], Undef)
        ELSE <<rec[f]>>]

\* the rows of one write call appended to the rows the stream of a file was handed
WriteRows(sink, file, records) ==
    [sink EXCEPT ![file] = @ \o [i \in DOMAIN records |-> CsvRow(records[i])]]

\* close(): stream.end() on every stream
EndStreams(s) == [s EXCEPT !.ended = TRUE]

----------------------------------------------------------------------------
(* Test-step taxonomy (testStepMapping)                                    *)

AnomalyKeys ==
    <<"missing_pan_pct", "duplicate_vendor_pan_pct", "duplicate_vendor_bank_pct",
      "vendor_without_approval_pct", "bank_change_unverified_pct",
      "inactive_vendor_used_pct", "duplicate_invoice_number_pct",
      "invoice_without_grn_pct", "payment_before_invoice_pct">>

anomalyToTestSteps ==
    [missing_pan_gst |-> <<"TS-002", "TS-003">>,
     duplicate_vendor_pan |-> <<"TS-004">>,
     duplicate_vendor_bank |-> <<"TS-005", "TS-179">>,
     vendor_without_approval |-> <<"TS-006">>,
     bank_change_unverified |-> <<"TS-007">>,
     inactive_vendor_used |-> <<"TS-012", "TS-063", "TS-132", "TS-142", "TS-175">>,
     invoice_without_grn |-> <<"TS-116", "TS-117", "TS-176">>,
     duplicate_invoice_number |-> <<"TS-118">>,
     payment_before_invoice |-> <<"TS-136", "TS-137", "TS-177">>]

getTestStepIdsForAnomaly(anomalyKey) ==
    IF anomalyKey \in DOMAIN taxonomy.steps THEN taxonomy.steps[anomalyKey] ELSE <<>>

\* The scenario ids of allScenarioPacks that the injectors look up, with their pack.
testStepMeta ==
    [x \in {"TS-002", "TS-003", "TS-004", "TS-005", "TS-006", "TS-007", "TS-012"} |->
        "vendor_master_pack"]
    @@ [x \in {"TS-044", "TS-046", "TS-052", "TS-060"} |-> "pr_controls_pack"]
    @@ [x \in {"TS-063"} |-> "po_controls_pack"]
    @@ [x \in {"TS-116", "TS-117", "TS-118", "TS-132"} |-> "invoice_pack"]
    @@ [x \in {"TS-136", "TS-137", "TS-142"} |-> "payment_pack"]
    @@ [x \in {"TS-175", "TS-176", "TS-177", "TS-179"} |-> "fraud_sod_pack"]

\* the two module-level tables as initializeTestStepMeta leaves them on module load
ScenarioTaxonomy == [steps |-> anomalyToTestSteps, meta |-> DOMAIN testStepMeta]

\* getTestStepInfo(tsId) returns an object and not null
HasTestStepInfo(tsId) == tsId \in taxonomy.meta

\* One AnomalyTruthRecord (the free-text name, summary and notes are left out).
Truth(tsId, entityType, entityId, plantedFields) ==
    [test_step_id |-> tsId, process_area |-> testStepMeta[tsId],
     entity_type |-> entityType, entity_id |-> entityId,
     planted_fields |-> plantedFields, expected_flag |-> TRUE]

----------------------------------------------------------------------------
(* Anomaly injectors (anomalyInjection.ts).  Each is an action on the      *)
(* working copies; the objects are shared with the caller's arrays.        *)

NoInjection ==
    UNCHANGED <<vendors, purchaseOrders, grns, invoices, payments,
                vOrder, iOrder, pOrder, truthRecords>>

\* the ids one injector call may draw: tsIds[Math.floor(rng() * tsIds.length)]
TsChoices(anomalyKey) ==
    {id \in Range(getTestStepIdsForAnomaly(anomalyKey)) : TRUE}

MissingPanEligible(vs) == {i \in DOMAIN vs : vs[i].pan # NoVal \/ vs[i].gstin # NoVal}

MissingPanCountOverEligible(vs, percentage) ==
    PctCount(Cardinality(MissingPanEligible(vs)), percentage)

MissingPanCount(vs, percentage) == PctCount(Len(vs), percentage)

MissingPanFields(v) ==
    (IF v.pan # NoVal THEN <<"pan">> ELSE <<>>) \o (IF v.gstin # NoVal THEN <<"gstin">> ELSE <<>>)

injectMissingPanGst(percentage) ==
    IF percentage <= 0 \/ TsChoices("missing_pan_gst") = {} THEN NoInjection
    ELSE \E selectedTsId \in TsChoices("missing_pan_gst") :
        IF ~HasTestStepInfo(selectedTsId) THEN NoInjection
        ELSE \E shuffled \in Shuffles(MissingPanEligible(vendors)) :
            LET selected == Take(shuffled, MissingPanCount(vendors, percentage)) IN
            /\ vendors' = [i \in DOMAIN vendors |->
                    IF i \in Range(selected)
                    THEN [vendors[i] EXCEPT !.pan = NoVal, !.gstin = NoVal]
                    ELSE vendors[i]]
            /\ truthRecords' = truthRecords \o
                    [j \in DOMAIN selected |->
                        Truth(selectedTsId, "vendor", vendors[selected[j]].vendor_id,
                              MissingPanFields(vendors[selected[j]]))]
            /\ UNCHANGED <<purchaseOrders, grns, invoices, payments, vOrder, iOrder, pOrder>>

\* Array.prototype.slice(from, to) on a sequence (0-based, `to` exclusive)
Slice(s, from, to) == SubSeq(s, from + 1, Min(to, Len(s)))

DuplicateSource(v) == v.pan

injectDuplicateVendorPan(percentage) ==
    IF percentage <= 0 \/ TsChoices("duplicate_vendor_pan") = {} THEN NoInjection
    ELSE \E selectedTsId \in TsChoices("duplicate_vendor_pan") :
        LET vendorsWithPan == {i \in DOMAIN vendors : vendors[i].pan # NoVal} IN
        IF ~HasTestStepInfo(selectedTsId) \/ Cardinality(vendorsWithPan) < 2 THEN NoInjection
        ELSE \E shuffled \in Shuffles(vendorsWithPan) :
            LET count == PctCount(Cardinality(vendorsWithPan), percentage)
                sourceVendor == vendors[shuffled[1]]
                targetVendors == Slice(shuffled, 1, count)
            IN
            /\ vendors' = [i \in DOMAIN vendors |->
                    IF i \in Range(targetVendors)
                    THEN [vendors[i] EXCEPT !.pan = DuplicateSource(sourceVendor)]
                    ELSE vendors[i]]
            /\ truthRecords' = truthRecords \o
                    [j \in DOMAIN targetVendors |->
                        Truth(selectedTsId, "vendor", vendors[targetVendors[j]].vendor_id, <<"pan">>)]
            /\ UNCHANGED <<purchaseOrders, grns, invoices, payments, vOrder, iOrder, pOrder>>

injectDuplicateVendorBank(percentage) ==
    IF percentage <= 0 \/ TsChoices("duplicate_vendor_bank") = {} THEN NoInjection
    ELSE \E selectedTsId \in TsChoices("duplicate_vendor_bank") :
        IF ~HasTestStepInfo(selectedTsId) THEN NoInjection
        ELSE \E shuffled \in Shuffles(DOMAIN vendors) :
            LET count == PctCount(Len(vendors), percentage)
                targetVendors == Slice(shuffled, 1, count)
            IN
            /\ vOrder' = shuffled           \* vendors.sort(...) sorts the working copy in place
            /\ vendors' = [i \in DOMAIN vendors |->
                    IF i \in Range(targetVendors)
                    THEN [vendors[i] EXCEPT
                            !.bank_account = vendors[shuffled[1]].bank_account,
                            !.ifsc = IF vendors[shuffled[1]].ifsc # NoVal
                                     THEN vendors[shuffled[1]].ifsc ELSE @]
                    ELSE vendors[i]]
            /\ truthRecords' = truthRecords \o
                    [j \in DOMAIN targetVendors |->
                        Truth(selectedTsId, "vendor", vendors[targetVendors[j]].vendor_id,
                              <<"bank_account", "ifsc">>)]
            /\ UNCHANGED <<purchaseOrders, grns, invoices, payments, iOrder, pOrder>>

injectVendorWithoutApproval(percentage) ==
    IF percentage <= 0 \/ TsChoices("vendor_without_approval") = {} THEN NoInjection
    ELSE \E selectedTsId \in TsChoices("vendor_without_approval") :
        IF ~HasTestStepInfo(selectedTsId) THEN NoInjection
        ELSE \E shuffled \in Shuffles({i \in DOMAIN vendors :
                    vendors[i].verified_by # NoVal \/ vendors[i].verification_date # NoVal}) :
            LET selected == Take(shuffled, PctCount(Len(vendors), percentage)) IN
            /\ vendors' = [i \in DOMAIN vendors |->
                    IF i \in Range(selected)
                    THEN [vendors[i] EXCEPT !.verified_by = NoVal, !.verification_date = NoVal]
                    ELSE vendors[i]]
            /\ truthRecords' = truthRecords \o
                    [j \in DOMAIN selected |->
                        Truth(selectedTsId, "vendor", vendors[selected[j]].vendor_id,
                              <<"verified_by", "verification_date">>)]
            /\ UNCHANGED <<purchaseOrders, grns, invoices, payments, vOrder, iOrder, pOrder>>

injectBankChangeUnverified(percentage) ==
    IF percentage <= 0 \/ TsChoices("bank_change_unverified") = {} THEN NoInjection
    ELSE \E selectedTsId \in TsChoices("bank_change_unverified") :
        IF ~HasTestStepInfo(selectedTsId) THEN NoInjection
        ELSE \E shuffled \in Shuffles(DOMAIN vendors) :
            LET selected == Take(shuffled, PctCount(Len(vendors), percentage)) IN
            /\ vOrder' = shuffled
            /\ vendors' = [i \in DOMAIN vendors |->
                    IF i \in Range(selected)
                    THEN [vendors[i] EXCEPT !.bank_change_verification = FALSE]
                    ELSE vendors[i]]
            /\ truthRecords' = truthRecords \o
                    [j \in DOMAIN selected |->
                        Truth(selectedTsId, "vendor", vendors[selected[j]].vendor_id,
                              <<"bank_change_verification">>)]
            /\ UNCHANGED <<purchaseOrders, grns, invoices, payments, iOrder, pOrder>>

\* the truth records of one entity list for the deactivated vendor ids, in array order
InactiveTruth(tsId, entityType, rows, order, ids, deactivatedVendorIds) ==
    IF ~HasTestStepInfo(tsId) THEN <<>>
    ELSE LET using == SelectSeq(order, LAMBDA i : rows[i].vendor_id \in deactivatedVendorIds)
         IN [j \in DOMAIN using |-> Truth(tsId, entityType, ids[using[j]], <<"vendor_status">>)]

\* one record for each deactivated vendor
InactiveFanOutPerVendor(deactivatedVendorIds) ==
    LET using == SelectSeq(Identity(Len(vendors)),
                           LAMBDA i : vendors[i].vendor_id \in deactivatedVendorIds)
    IN [j \in DOMAIN using |->
            Truth("TS-012", "vendor", vendors[using[j]].vendor_id, <<"vendor_status">>)]

InactiveFanOut(deactivatedVendorIds) ==
    InactiveTruth("TS-063", "po", purchaseOrders, Identity(Len(purchaseOrders)),
                  [i \in DOMAIN purchaseOrders |-> purchaseOrders[i].po_no],
                  deactivatedVendorIds)
    \o InactiveTruth("TS-132", "invoice", invoices, iOrder,
                     [i \in DOMAIN invoices |-> invoices[i].invoice_no],
                     deactivatedVendorIds)
    \o InactiveTruth("TS-142", "payment", payments, pOrder,
                     [i \in DOMAIN payments |-> payments[i].payment_id],
                     deactivatedVendorIds)

injectInactiveVendorUsed(percentage) ==
    IF percentage <= 0 THEN NoInjection
    ELSE LET activeVendors == {i \in DOMAIN vendors : vendors[i].status = "active"} IN
        \E shuffled \in Shuffles(activeVendors) :
            LET vendorsToDeactivate == Take(shuffled, PctCount(Cardinality(activeVendors), percentage))
                deactivatedVendorIds == {vendors[i].vendor_id : i \in Range(vendorsToDeactivate)}
            IN
            /\ vendors' = [i \in DOMAIN vendors |->
                    IF i \in Range(vendorsToDeactivate)
                    THEN [vendors[i] EXCEPT !.status = "inactive"]
                    ELSE vendors[i]]
            /\ truthRecords' = truthRecords \o InactiveFanOut(deactivatedVendorIds)
            /\ UNCHANGED <<purchaseOrders, grns, invoices, payments, vOrder, iOrder, pOrder>>

injectDuplicateInvoiceNumber(percentage) ==
    IF percentage <= 0 \/ TsChoices("duplicate_invoice_number") = {} THEN NoInjection
    ELSE \E selectedTsId \in TsChoices("duplicate_invoice_number") :
        IF ~HasTestStepInfo(selectedTsId) THEN NoInjection
        ELSE \E shuffled \in Shuffles(DOMAIN invoices) :
            LET count == PctCount(Len(invoices), percentage)
                targetInvoices == Slice(shuffled, 1, count)
            IN
            /\ iOrder' = shuffled           \* invoices.sort(...) sorts the working copy in place
            /\ invoices' = [i \in DOMAIN invoices |->
                    IF i \in Range(targetInvoices)
                    THEN [invoices[i] EXCEPT !.invoice_no = invoices[shuffled[1]].invoice_no]
                    ELSE invoices[i]]
            /\ truthRecords' = truthRecords \o
                    [j \in DOMAIN targetInvoices |->
                        Truth(selectedTsId, "invoice", invoices[shuffled[1]].invoice_no,
                              <<"invoice_no">>)]
            /\ UNCHANGED <<vendors, purchaseOrders, grns, payments, vOrder, pOrder>>

injectInvoiceWithoutGrn(percentage) ==
    IF percentage <= 0 \/ TsChoices("invoice_without_grn") = {} THEN NoInjection
    ELSE \E selectedTsId \in TsChoices("invoice_without_grn") :
        IF ~HasTestStepInfo(selectedTsId) THEN NoInjection
        ELSE LET invoicesWithGrn == {i \in DOMAIN invoices : invoices[i].grn_no # Undef} IN
            \E shuffled \in Shuffles(invoicesWithGrn) :
            LET selected == Take(shuffled, PctCount(Cardinality(invoicesWithGrn), percentage)) IN
            /\ invoices' = [i \in DOMAIN invoices |->
                    IF i \in Range(selected)
                    THEN [invoices[i] EXCEPT !.grn_no = Undef]
                    ELSE invoices[i]]
            /\ truthRecords' = truthRecords \o
                    [j \in DOMAIN selected |->
                        Truth(selectedTsId, "invoice", invoices[selected[j]].invoice_no, <<"grn_no">>)]
            /\ UNCHANGED <<vendors, purchaseOrders, grns, payments, vOrder, iOrder, pOrder>>

\* Math.floor(rng() * 30) + 1, the values drawn in the model
DaysBeforeDraws == {1, 30}

\* invoiceMap.get(invoiceNo): the Map keeps the last invoice set under a key
InvoiceMapHas(invoiceNo) == \E i \in DOMAIN invoices : invoices[i].invoice_no = invoiceNo
InvoiceMapGet(invoiceNo) ==
    LET at == {k \in DOMAIN iOrder : invoices[iOrder[k]].invoice_no = invoiceNo}
    IN invoices[iOrder[CHOOSE k \in at : \A m \in at : m <= k]]

injectPaymentBeforeInvoice(percentage) ==
    IF percentage <= 0 \/ TsChoices("payment_before_invoice") = {} THEN NoInjection
    ELSE \E selectedTsId \in TsChoices("payment_before_invoice") :
        IF ~HasTestStepInfo(selectedTsId) THEN NoInjection
        ELSE \E shuffled \in Shuffles(DOMAIN payments) :
            LET selected == Take(shuffled, PctCount(Len(payments), percentage))
                planted == SelectSeq(selected, LAMBDA i : InvoiceMapHas(payments[i].invoice_no))
            IN \E daysBefore \in [Range(planted) -> DaysBeforeDraws] :
            /\ pOrder' = shuffled           \* payments.sort(...) sorts the working copy in place
            /\ payments' = [i \in DOMAIN payments |->
                    IF i \in Range(planted)
                    THEN [payments[i] EXCEPT !.payment_date =
                            InvoiceMapGet(payments[i].invoice_no).invoice_date - daysBefore[i]]
                    ELSE payments[i]]
            /\ truthRecords' = truthRecords \o
                    [j \in DOMAIN planted |->
                        Truth(selectedTsId, "payment", payments[planted[j]].payment_id,
                              <<"payment_date">>)]
            /\ UNCHANGED <<vendors, purchaseOrders, grns, invoices, vOrder, iOrder>>

----------------------------------------------------------------------------
(* injectAnomalies: the nine guarded injector calls, in the order of the   *)
(* source, each one step of the model.                                     *)

Snapshot ==
    [vendors |-> vendors, purchaseOrders |-> purchaseOrders, grns |-> grns,
     invoices |-> invoices, payments |-> payments, truthRecords |-> truthRecords]

KeyIndex(key) == CHOOSE k \in DOMAIN AnomalyKeys : AnomalyKeys[k] = key
LastIndex == IF last = "none" THEN 0 ELSE KeyIndex(last)

\* a key the config does not carry reads as 100 percent
PctDefaultFull(key) == IF key \in DOMAIN acfg /\ acfg[key] # NoVal THEN acfg[key] ELSE 100

\* config.<key>: undefined when the config does not carry the key
Pct(key) == IF key \in DOMAIN acfg THEN acfg[key] ELSE NoVal

\* `if (config.<key>)`: the value read is truthy
Truthy(key) == Pct(key) # NoVal

InjectAnomaliesCall ==
    /\ pc = "inject_call"
    /\ pc' = "inject"
    /\ input' = Snapshot
    /\ prev' = Snapshot
    /\ last' = "none"
    /\ truthRecords' = <<>>
    /\ vOrder' = Identity(Len(vendors))
    /\ iOrder' = Identity(Len(invoices))
    /\ pOrder' = Identity(Len(payments))
    /\ UNCHANGED <<cfg, acfg, vendors, purchaseOrders, grns, invoices, payments, manifest, err,
                   ctx, first, taxonomy, prHeaders, prLines, quotations, written, streams>>

InjectorStep(key) ==
    /\ pc = "inject"
    /\ LastIndex + 1 = KeyIndex(key)
    /\ last' = key
    /\ prev' = Snapshot
    /\ UNCHANGED <<pc, cfg, acfg, manifest, err, input, ctx, first, taxonomy, prHeaders, prLines, quotations, written, streams>>

MissingPanGstStep ==
    /\ InjectorStep("missing_pan_pct")
    /\ IF Truthy("missing_pan_pct")
       THEN injectMissingPanGst(Pct("missing_pan_pct")) ELSE NoInjection

DuplicateVendorPanStep ==
    /\ InjectorStep("duplicate_vendor_pan_pct")
    /\ IF Truthy("duplicate_vendor_pan_pct")
       THEN injectDuplicateVendorPan(Pct("duplicate_vendor_pan_pct")) ELSE NoInjection

DuplicateVendorBankStep ==
    /\ InjectorStep("duplicate_vendor_bank_pct")
    /\ IF Truthy("duplicate_vendor_bank_pct")
       THEN injectDuplicateVendorBank(Pct("duplicate_vendor_bank_pct")) ELSE NoInjection

VendorWithoutApprovalStep ==
    /\ InjectorStep("vendor_without_approval_pct")
    /\ IF Truthy("vendor_without_approval_pct")
       THEN injectVendorWithoutApproval(Pct("vendor_without_approval_pct")) ELSE NoInjection

BankChangeUnverifiedStep ==
    /\ InjectorStep("bank_change_unverified_pct")
    /\ IF Truthy("bank_change_unverified_pct")
       THEN injectBankChangeUnverified(Pct("bank_change_unverified_pct")) ELSE NoInjection

InactiveVendorUsedStep ==
    /\ InjectorStep("inactive_vendor_used_pct")
    /\ IF Truthy("inactive_vendor_used_pct")
       THEN injectInactiveVendorUsed(Pct("inactive_vendor_used_pct")) ELSE NoInjection

DuplicateInvoiceNumberStep ==
    /\ InjectorStep("duplicate_invoice_number_pct")
    /\ IF Truthy("duplicate_invoice_number_pct")
       THEN injectDuplicateInvoiceNumber(Pct("duplicate_invoice_number_pct")) ELSE NoInjection

InvoiceWithoutGrnStep ==
    /\ InjectorStep("invoice_without_grn_pct")
    /\ IF Truthy("invoice_without_grn_pct")
       THEN injectInvoiceWithoutGrn(Pct("invoice_without_grn_pct")) ELSE NoInjection

PaymentBeforeInvoiceStep ==
    /\ InjectorStep("payment_before_invoice_pct")
    /\ IF Truthy("payment_before_invoice_pct")
       THEN injectPaymentBeforeInvoice(Pct("payment_before_invoice_pct")) ELSE NoInjection

InjectAnomaliesReturn ==
    /\ pc = "inject"
    /\ LastIndex = Len(AnomalyKeys)
    /\ pc' = "injected"
    /\ UNCHANGED <<cfg, acfg, vendors, purchaseOrders, grns, invoices, payments,
                   vOrder, iOrder, pOrder, truthRecords, manifest, err, input, prev, last,
                   ctx, first, taxonomy, prHeaders, prLines, quotations, written, streams>>

InjectAnomalies ==
    \/ InjectAnomaliesCall
    \/ MissingPanGstStep
    \/ DuplicateVendorPanStep
    \/ DuplicateVendorBankStep
    \/ VendorWithoutApprovalStep
    \/ BankChangeUnverifiedStep
    \/ InactiveVendorUsedStep
    \/ DuplicateInvoiceNumberStep
    \/ InvoiceWithoutGrnStep
    \/ PaymentBeforeInvoiceStep
    \/ InjectAnomaliesReturn

----------------------------------------------------------------------------
(* Records (schemas.ts), with the fields the generators, the constraint    *)
(* pass and the injectors read or write.                                   *)

\* Amounts are integers, Cent units to 0.01; a value with 2 fraction digits is a
\* multiple of Cent, and a binary64 sum that is not the double nearest to its
\* decimal value lies a residue off that grid.
Cent == 10
Round2(x) == ((x + (Cent \div 2)) \div Cent) * Cent

Vendor(i, name, pan, gstin, ifsc, status, bankChangeVerification, createdDate, verifiedBy, verificationDate) ==
    [vendor_id |-> generateVendorId(i), vendor_name |-> name, pan |-> pan, gstin |-> gstin,
     bank_account |-> i, ifsc |-> ifsc, status |-> status,
     bank_change_verification |-> bankChangeVerification, created_date |-> createdDate,
     verified_by |-> verifiedBy, verification_date |-> verificationDate]

PurchaseOrder(poNo, vendorId, poDate, orderAmount, taxAmount, totalAmount, status) ==
    [po_no |-> poNo, vendor_id |-> vendorId, po_date |-> poDate, order_amount |-> orderAmount,
     tax_amount |-> taxAmount, total_amount |-> totalAmount, status |-> status]

GRN(grnNo, poNo, vendorId, grnDate) ==
    [grn_no |-> grnNo, po_no |-> poNo, vendor_id |-> vendorId, grn_date |-> grnDate]

Invoice(invoiceNo, vendorId, poNo, grnNo, invoiceDate, dueDate, invoiceAmount, taxAmount, totalAmount, status) ==
    [invoice_no |-> invoiceNo, vendor_id |-> vendorId, po_no |-> poNo, grn_no |-> grnNo,
     invoice_date |-> invoiceDate, due_date |-> dueDate, invoice_amount |-> invoiceAmount,
     tax_amount |-> taxAmount, total_amount |-> totalAmount, status |-> status]

Payment(paymentId, invoiceNo, vendorId, paymentDate, paymentAmount) ==
    [payment_id |-> paymentId, invoice_no |-> invoiceNo, vendor_id |-> vendorId,
     payment_date |-> paymentDate, payment_amount |-> paymentAmount]

----------------------------------------------------------------------------
(* The injector on its own: injectAnomalies called on a generated dataset  *)
(* drawn from bounded sets.                                                *)

YearDraws == {2023, 2024}
PctDraws == {50, 100}

\* which optional vendor fields the generator filled in, and the status it drew
VendorShapes ==
    {[pan |-> TRUE, gstin |-> TRUE, active |-> TRUE],
     [pan |-> FALSE, gstin |-> FALSE, active |-> TRUE],
     [pan |-> TRUE, gstin |-> FALSE, active |-> FALSE]}

ShapedVendor(i, shape, startYear, companyName) ==
    Vendor(i, companyName, IF shape.pan THEN i ELSE NoVal, IF shape.gstin THEN i ELSE NoVal, i,
           IF shape.active THEN "active" ELSE "inactive", TRUE, startYear * DaysPerYear + i, 1, 1)

\* the vendor of the j-th PO: all POs on the first vendor, or spread over the vendors
VendorOfPO(spread, j, n) == IF spread THEN ((j - 1) % n) + 1 ELSE 1

SampleDate(j) == 2023 * DaysPerYear + 20 * j
SampleAmount(j) == 1000 * j * Cent

SamplePO(j, v) ==
    PurchaseOrder(generatePONumber(2023, j), generateVendorId(v), SampleDate(j),
                  SampleAmount(j), 0, SampleAmount(j), "approved")
SampleGRN(j, v) ==
    GRN(generateGRNNumber(2023, j), generatePONumber(2023, j), generateVendorId(v),
        SampleDate(j) + 1)
SampleInvoice(j, v) ==
    Invoice(generateInvoiceNumber(2023, j), generateVendorId(v), generatePONumber(2023, j),
            IF j % 2 = 1 THEN generateGRNNumber(2023, j) ELSE Undef,
            SampleDate(j) + 2, SampleDate(j) + 32, SampleAmount(j), 0, SampleAmount(j),
            "approved")
SamplePayment(j, v) ==
    Payment(generatePaymentId(2023, j), generateInvoiceNumber(2023, j), generateVendorId(v),
            SampleDate(j) + 3, SampleAmount(j))

\* an AnomalyConfig with one key at a positive percentage; the keys before it are
\* present with the value 0, the keys after it are absent
OneKeyConfigs ==
    {[k \in {x \in Range(AnomalyKeys) : KeyIndex(x) <= KeyIndex(key)} |->
        IF k = key THEN p ELSE 0] : key \in Range(AnomalyKeys), p \in PctDraws}

\* duplicate invoice numbers and early payments requested together
TwoKeyConfigs ==
    {[duplicate_invoice_number_pct |-> 100, payment_before_invoice_pct |-> 100]}

AnomalyConfigs ==
    OneKeyConfigs \cup TwoKeyConfigs \cup {<<>>, [k \in Range(AnomalyKeys) |-> 0]}

InitInjectWith(configs, taxonomies) ==
    /\ pc = "inject_call"
    /\ cfg = <<>>
    /\ acfg \in configs
    /\ \E n \in 1..MaxVendors, nPO \in 0..MaxPOs, spread \in BOOLEAN :
        \E shape \in [1..n -> VendorShapes], nInv \in 0..nPO :
        \E nPay \in 0..nInv :
            /\ vendors = [i \in 1..n |-> ShapedVendor(i, shape[i], 2023, 1)]
            /\ purchaseOrders = [j \in 1..nPO |-> SamplePO(j, VendorOfPO(spread, j, n))]
            /\ grns = [j \in 1..((nPO + 1) \div 2) |->
                        SampleGRN(2 * j - 1, VendorOfPO(spread, 2 * j - 1, n))]
            /\ invoices = [j \in 1..nInv |-> SampleInvoice(j, VendorOfPO(spread, j, n))]
            /\ payments = [j \in 1..nPay |-> SamplePayment(j, VendorOfPO(spread, j, n))]
    /\ vOrder = <<>> /\ iOrder = <<>> /\ pOrder = <<>>
    /\ truthRecords = <<>>
    /\ manifest = <<>>
    /\ err = "none"
    /\ input = <<>>
    /\ prev = <<>>
    /\ last = "none"
    /\ ctx = <<>>
    /\ first = <<>>
    /\ taxonomy \in taxonomies
    /\ prHeaders = <<>>
    /\ prLines = <<>>
    /\ quotations = <<>>
    /\ written = NothingWritten
    /\ streams = NoStreams

InitInject == InitInjectWith(AnomalyConfigs, {ScenarioTaxonomy})

SpecInject == InitInject /\ [][InjectAnomalies]_vars

\* the injector under a taxonomy that fails: a key without test-step ids, or ids
\* whose metadata testStepMeta does not hold
TaxonomyStates ==
    {[ScenarioTaxonomy EXCEPT !.steps = [k \in DOMAIN anomalyToTestSteps |-> <<>>]],
     [ScenarioTaxonomy EXCEPT !.meta = {}]}

InitTaxonomy == InitInjectWith(OneKeyConfigs, TaxonomyStates)

SpecTaxonomy == InitTaxonomy /\ [][InjectAnomalies]_vars

----------------------------------------------------------------------------
(* Process-layer PR injectors (processAnomalyInjection.ts), each an        *)
(* exported function called on the requisitions and purchase orders.       *)

MaxPRs == 2
MaxCalls == 2

\* config.pr_approval_threshold || 50000
ApprovalThreshold == 50000

PRHeader(j, totalAmount, approved) ==
    [pr_no |-> <<"PR", 2023, j>>, total_amount |-> totalAmount, requested_by |-> j,
     department |-> j, approved_by |-> IF approved THEN 1 ELSE NoVal,
     approval_date |-> IF approved THEN SampleDate(j) ELSE NoVal,
     approval_status |-> IF approved THEN "approved" ELSE "pending"]

PRShapes == {[total_amount |-> a, approved |-> b] : a \in {40000, 60000}, b \in BOOLEAN}

ProcessSnapshot(percentage) ==
    [prHeaders |-> prHeaders, purchaseOrders |-> purchaseOrders,
     truthRecords |-> truthRecords, percentage |-> percentage]

\* the PRs injectPRWithoutApproval may pick: at or above the threshold and approved
ApprovalEligible(prs) ==
    {i \in DOMAIN prs : prs[i].total_amount >= ApprovalThreshold
                         /\ (prs[i].approved_by # NoVal \/ prs[i].approval_date # NoVal)}

injectPRWithoutApproval(percentage) ==
    IF percentage <= 0 \/ ~HasTestStepInfo("TS-044")
    THEN UNCHANGED <<prHeaders, truthRecords>>
    ELSE \E shuffled \in Shuffles(ApprovalEligible(prHeaders)) :
        LET selectedPRs == Take(shuffled, PctCount(Len(shuffled), percentage)) IN
        /\ prHeaders' = [i \in DOMAIN prHeaders |->
                IF i \in Range(selectedPRs)
                THEN [prHeaders[i] EXCEPT !.approved_by = NoVal, !.approval_date = NoVal,
                                          !.approval_status = "pending"]
                ELSE prHeaders[i]]
        /\ truthRecords' = truthRecords \o
                [j \in DOMAIN selectedPRs |->
                    Truth("TS-044", "pr", prHeaders[selectedPRs[j]].pr_no,
                          <<"approved_by", "approval_date", "approval_status">>)]

\* `BYPASS-${count} records`
BypassEntityId(count) == <<"BYPASS", count>>

injectPRBypass(percentage) ==
    /\ UNCHANGED prHeaders
    /\ IF percentage <= 0 \/ ~HasTestStepInfo("TS-046")
       THEN UNCHANGED truthRecords
       ELSE LET count == PctCount(Len(purchaseOrders), percentage) IN
            truthRecords' = Append(truthRecords,
                Truth("TS-046", "po", BypassEntityId(count), <<"pr_linkage">>))

injectPRDuplicate(percentage) ==
    IF percentage <= 0 \/ Len(prHeaders) < 2 \/ ~HasTestStepInfo("TS-052")
    THEN UNCHANGED <<prHeaders, truthRecords>>
    ELSE \E shuffled \in Shuffles(DOMAIN prHeaders) :
        LET count == PctCount(Len(prHeaders), percentage)
            sourcePR == prHeaders[shuffled[1]]
            targetPRs == Slice(shuffled, 1, count)
        IN
        \* prHeaders.sort(...) sorts the array it was handed in place
        /\ prHeaders' = [k \in DOMAIN shuffled |->
                IF shuffled[k] \in Range(targetPRs)
                THEN [prHeaders[shuffled[k]] EXCEPT !.total_amount = sourcePR.total_amount,
                                                    !.requested_by = sourcePR.requested_by,
                                                    !.department = sourcePR.department]
                ELSE prHeaders[shuffled[k]]]
        /\ truthRecords' = truthRecords \o
                [j \in DOMAIN targetPRs |->
                    Truth("TS-052", "pr", prHeaders[targetPRs[j]].pr_no,
                          <<"total_amount", "requested_by", "department">>)]

\* the PRs injectPRThresholdViolations may pick: below the threshold
BelowThreshold(prs) == {i \in DOMAIN prs : prs[i].total_amount < ApprovalThreshold}

\* rng() * 10000, the amount over the threshold
ExcessDraws == {0, 5000}

injectPRThresholdViolations(percentage) ==
    IF percentage <= 0 \/ ~HasTestStepInfo("TS-060")
    THEN UNCHANGED <<prHeaders, truthRecords>>
    ELSE \E shuffled \in Shuffles(BelowThreshold(prHeaders)), excess \in ExcessDraws :
        LET selectedPRs == Take(shuffled, PctCount(Len(shuffled), percentage)) IN
        /\ prHeaders' = [i \in DOMAIN prHeaders |->
                IF i \in Range(selectedPRs)
                THEN [prHeaders[i] EXCEPT !.total_amount = ApprovalThreshold + excess]
                ELSE prHeaders[i]]
        /\ truthRecords' = truthRecords \o
                [j \in DOMAIN selectedPRs |->
                    Truth("TS-060", "pr", prHeaders[selectedPRs[j]].pr_no,
                          <<"total_amount">>)]

\* one call of an exported injector: what every call leaves alone, and the history
ProcessCall(name, percentage) ==
    /\ pc = "process"
    /\ ctx.calls < MaxCalls
    /\ ctx' = [ctx EXCEPT !.calls = @ + 1]
    /\ last' = name
    /\ prev' = ProcessSnapshot(percentage)
    /\ UNCHANGED <<pc, cfg, acfg, vendors, purchaseOrders, grns, invoices, payments,
                   vOrder, iOrder, pOrder, manifest, err, input, first, taxonomy,
                   prLines, quotations, written, streams>>

ProcessPctDraws == {30, 50, 100}

InjectPRWithoutApproval ==
    \E percentage \in ProcessPctDraws :
        /\ ProcessCall("pr_without_approval_pct", percentage)
        /\ injectPRWithoutApproval(percentage)

InjectPRBypass ==
    \E percentage \in ProcessPctDraws :
        /\ ProcessCall("pr_bypass_pct", percentage)
        /\ injectPRBypass(percentage)

InjectPRDuplicate ==
    \E percentage \in ProcessPctDraws :
        /\ ProcessCall("pr_duplicate_pct", percentage)
        /\ injectPRDuplicate(percentage)

InjectPRThresholdViolations ==
    \E percentage \in ProcessPctDraws :
        /\ ProcessCall("pr_threshold_violation_pct", percentage)
        /\ injectPRThresholdViolations(percentage)

InitProcess ==
    /\ pc = "process"
    /\ cfg = <<>>
    /\ acfg = <<>>
    /\ \E nPR \in 0..MaxPRs, nPO \in 0..MaxPOs :
        \E shape \in [1..nPR -> PRShapes] :
            /\ prHeaders = [j \in 1..nPR |->
                    PRHeader(j, shape[j].total_amount, shape[j].approved)]
            /\ purchaseOrders = [j \in 1..nPO |-> SamplePO(j, 1)]
    /\ vendors = <<>> /\ grns = <<>> /\ invoices = <<>> /\ payments = <<>>
    /\ vOrder = <<>> /\ iOrder = <<>> /\ pOrder = <<>>
    /\ truthRecords = <<>>
    /\ manifest = <<>>
    /\ err = "none"
    /\ input = <<>>
    /\ prev = <<>>
    /\ last = "none"
    /\ ctx = [calls |-> 0]
    /\ first = <<>>
    /\ taxonomy = ScenarioTaxonomy
    /\ prLines = <<>>
    /\ quotations = <<>>
    /\ written = NothingWritten
    /\ streams = NoStreams

NextProcess ==
    \/ InjectPRWithoutApproval
    \/ InjectPRBypass
    \/ InjectPRDuplicate
    \/ InjectPRThresholdViolations

SpecProcess == InitProcess /\ [][NextProcess]_vars

----------------------------------------------------------------------------
(* Amount arithmetic.                                                      *)

Amount(cents) == cents * Cent
Cents(amount) == amount \div Cent

\* the drawn pairs of 2-digit amounts whose binary64 sum is not the double nearest
\* to their decimal sum: 95586.96 + 4779.35 = 100366.31000000001
InexactSums == {<<Amount(9558696), Amount(477935)>>}

\* a + b in binary64
FloatSum(a, b) == a + b + (IF <<a, b>> \in InexactSums THEN 1 ELSE 0)

\* [5, 12, 18, 28], in percent
TaxRates == {5, 12, 18, 28}

\* Math.round(orderAmount * taxRate * 100) / 100
calculateTax(orderAmount, taxRate) == Amount((Cents(orderAmount) * taxRate + 50) \div 100)

\* po.tax_amount / po.order_amount: the rate the tax of the order was computed with
\* (the quotient is off that rate by less than 1e-7, which moves no rounding of the
\* drawn amounts)
TaxRateOf(po) == CHOOSE r \in TaxRates : calculateTax(po.order_amount, r) = po.tax_amount

\* Math.round(amount * (1 + variance / 100) * 100) / 100
applyAmountVariance(amount, variance) ==
    Amount((Cents(amount) * (100 + variance) + 50) \div 100)

----------------------------------------------------------------------------
(* Helpers on sequences of indices.                                        *)

Reverse(seq) == [i \in 1..Len(seq) |-> seq[Len(seq) + 1 - i]]

\* Array.prototype.sort of indices with a comparator on their keys: stable, ascending
SortBy(seq, keys) ==
    LET n == Len(seq)
        rank(k) == Cardinality({j \in 1..n : \/ keys[seq[j]] < keys[seq[k]]
                                             \/ keys[seq[j]] = keys[seq[k]] /\ j < k}) + 1
    IN [r \in 1..n |-> seq[CHOOSE k \in 1..n : rank(k) = r]]

\* the orders of sort(() => rng() - 0.5) drawn for the generators
ShuffleDraws(seq) == {seq, Reverse(seq)}

\* the value of a per-year counter (Map year -> count) at the k-th element
YearCounter(seq, k, years) ==
    Cardinality({j \in 1..k : years[seq[j]] = years[seq[k]]})

\* arr[Math.floor(rng() * arr.length)], the draw being the first or the last index
PickIndex(draw, len) == IF draw = "first" THEN 1 ELSE len

----------------------------------------------------------------------------
(* Generator configuration and vendors (baseGenerator.ts).                 *)

MaxOverrun == 1

Ratios ==
    {[grn |-> 80, invoice |-> 90, payment |-> 85],
     [grn |-> 100, invoice |-> 100, payment |-> 100]}

YearRanges == {r \in YearDraws \X YearDraws : r[1] <= r[2]}

GeneratorConfig(vendorCount, poCount, years, chunkSize, ratios, hasAnomalyConfig) ==
    [vendorCount |-> vendorCount, poCount |-> poCount,
     startYear |-> years[1], endYear |-> years[2], chunkSize |-> chunkSize,
     grnRatio |-> ratios.grn, invoiceRatio |-> ratios.invoice,
     paymentRatio |-> ratios.payment, hasAnomalyConfig |-> hasAnomalyConfig]

CtxInit ==
    [vendorDraw |-> "none", year |-> 0, i |-> 0, yearEnd |-> 0, unbounded |-> FALSE,
     chunkIndex |-> 0, poSequenceCounter |-> 0, constraintPasses |-> 0,
     validation |-> <<>>]

\* the seeded draws of one generateVendors call: which vendors are inactive
VendorPatterns == {"full", "first_inactive", "none_active"}

PatternShape(pattern, i) ==
    IF pattern = "none_active" THEN [pan |-> TRUE, gstin |-> TRUE, active |-> FALSE]
    ELSE IF (pattern = "first_inactive" /\ i = 1) \/ (pattern = "second_inactive" /\ i = 2)
         THEN [pan |-> TRUE, gstin |-> FALSE, active |-> FALSE]
         ELSE [pan |-> TRUE, gstin |-> TRUE, active |-> TRUE]

\* faker.company.name(): not drawn from the seeded rng
FakerNames == {1, 2}

generateVendors(count, pattern, startYear, companyName) ==
    [i \in 1..count |-> ShapedVendor(i, PatternShape(pattern, i), startYear, companyName)]

IsActive(v) == v.status = "active"
ActiveVendors(vs) == SelectSeq(vs, IsActive)

EmptyDataset ==
    /\ vendors = <<>>
    /\ purchaseOrders = <<>>
    /\ grns = <<>>
    /\ invoices = <<>>
    /\ payments = <<>>

NoInjectorState ==
    /\ vOrder = <<>> /\ iOrder = <<>> /\ pOrder = <<>>
    /\ truthRecords = <<>>
    /\ input = <<>>
    /\ prev = <<>>
    /\ last = "none"

injectorVars == <<vOrder, iOrder, pOrder, truthRecords, input, prev, last>>

----------------------------------------------------------------------------
(* generateBaseData: vendors, purchase orders, GRNs, invoices, payments.   *)

\* the draws of the generateVendors call of generateBaseData
BaseVendorPatterns == VendorPatterns \cup {"second_inactive"}

GenerateBaseVendors ==
    /\ pc = "base_call"
    /\ \E pattern \in BaseVendorPatterns, companyName \in FakerNames :
        /\ vendors' = generateVendors(cfg.vendorCount, pattern, cfg.startYear, companyName)
        /\ ctx' = [ctx EXCEPT !.vendorDraw = pattern]
    /\ pc' = "pos_call"
    /\ UNCHANGED <<cfg, acfg, purchaseOrders, grns, invoices, payments, manifest, err, first, taxonomy, prHeaders, prLines, quotations, written, streams>>
    /\ UNCHANGED injectorVars

\* the condition of the loop over the years
YearLoopRuns(year, generated) == year <= cfg.endYear /\ generated < cfg.poCount

\* entering the loop body of a year: yearEnd is count - length in the last year and
\* Infinity in every other year
EnterYear(year, generated) ==
    [ctx EXCEPT !.year = year, !.i = 0,
                !.unbounded = (year # cfg.endYear),
                !.yearEnd = cfg.poCount - generated]

EnterPurchaseOrders ==
    /\ pc = "pos_call"
    /\ IF ActiveVendors(vendors) = <<>>
       THEN /\ pc' = "failed"
            /\ err' = "No active vendors available for PO generation"
            /\ UNCHANGED ctx
       ELSE /\ err' = err
            /\ IF YearLoopRuns(cfg.startYear, 0)
               THEN pc' = "po_loop" /\ ctx' = EnterYear(cfg.startYear, 0)
               ELSE pc' = "grns_call" /\ UNCHANGED ctx
    /\ UNCHANGED <<cfg, acfg, vendors, purchaseOrders, grns, invoices, payments, manifest, first, taxonomy, prHeaders, prLines, quotations, written, streams>>
    /\ UNCHANGED injectorVars

\* the seeded draws of one purchase order
PODraws ==
    {[vendor |-> "first", orderAmount |-> Amount(9558696), taxRate |-> 5,
      status |-> "approved", day |-> 10],
     [vendor |-> "last", orderAmount |-> Amount(10000000), taxRate |-> 5,
      status |-> "completed", day |-> 300],
     [vendor |-> "last", orderAmount |-> Amount(10000000), taxRate |-> 5,
      status |-> "draft", day |-> 300]}

NewPO(year, poSequence, vs, d) ==
    LET activeVendors == ActiveVendors(vs)
        vendor == activeVendors[PickIndex(d.vendor, Len(activeVendors))]
        taxAmount == calculateTax(d.orderAmount, d.taxRate)
    IN PurchaseOrder(generatePONumber(year, poSequence), vendor.vendor_id,
                     year * DaysPerYear + d.day, d.orderAmount, taxAmount,
                     FloatSum(d.orderAmount, taxAmount), d.status)

\* one iteration of `for (let i = 0; i < yearEnd; i++)`
GeneratePurchaseOrder ==
    /\ pc = "po_loop"
    /\ ctx.unbounded \/ ctx.i < ctx.yearEnd
    /\ Len(purchaseOrders) < cfg.poCount + MaxOverrun
    /\ \E d \in PODraws :
        purchaseOrders' =
            Append(purchaseOrders, NewPO(ctx.year, Len(purchaseOrders) + 1, vendors, d))
    /\ ctx' = [ctx EXCEPT !.i = @ + 1]
    /\ UNCHANGED <<pc, cfg, acfg, vendors, grns, invoices, payments, manifest, err, first, taxonomy, prHeaders, prLines, quotations, written, streams>>
    /\ UNCHANGED injectorVars

\* the inner loop of a year ends; the loop over the years goes on or ends
NextYear ==
    /\ pc = "po_loop"
    /\ ~ctx.unbounded /\ ctx.i >= ctx.yearEnd
    /\ IF YearLoopRuns(ctx.year + 1, Len(purchaseOrders))
       THEN pc' = pc /\ ctx' = EnterYear(ctx.year + 1, Len(purchaseOrders))
       ELSE pc' = "grns_call" /\ UNCHANGED ctx
    /\ UNCHANGED <<cfg, acfg, vendors, purchaseOrders, grns, invoices, payments, manifest, err,
                   first, taxonomy, prHeaders, prLines, quotations, written, streams>>
    /\ UNCHANGED injectorVars

\* a year whose bound is Infinity: the loop pushes until the heap is exhausted; the
\* model follows it MaxOverrun orders past poCount
PurchaseOrderLoopExhausted ==
    /\ pc = "po_loop"
    /\ ctx.unbounded
    /\ Len(purchaseOrders) >= cfg.poCount + MaxOverrun
    /\ pc' = "failed"
    /\ err' = "heap out of memory"
    /\ UNCHANGED <<cfg, acfg, vendors, purchaseOrders, grns, invoices, payments, manifest, ctx,
                   first, taxonomy, prHeaders, prLines, quotations, written, streams>>
    /\ UNCHANGED injectorVars

IsApprovedOrCompleted(po) == po.status = "approved" \/ po.status = "completed"

\* purchaseOrders.filter(po => approved or completed), as indices
EligiblePOs(pos) == SelectSeq(Identity(Len(pos)), LAMBDA i : IsApprovedOrCompleted(pos[i]))

\* Math.floor(rng() * 90)
GrnDayDraws == {0, 89}

generateGRNs(pos, grnRatio, shuffled, days) ==
    LET posToGrn == PctCount(Len(shuffled), grnRatio)
        selectedPOs == SortBy(Take(shuffled, posToGrn), [i \in DOMAIN pos |-> pos[i].po_date])
        yearOf == [i \in DOMAIN pos |-> getFullYear(pos[i].po_date)]
    IN [k \in DOMAIN selectedPOs |->
            LET po == pos[selectedPOs[k]] IN
            GRN(generateGRNNumber(yearOf[selectedPOs[k]], YearCounter(selectedPOs, k, yearOf)),
                po.po_no, po.vendor_id, addDays(po.po_date, days))]

GenerateGRNs ==
    /\ pc = "grns_call"
    /\ \E shuffled \in ShuffleDraws(EligiblePOs(purchaseOrders)),
          days \in GrnDayDraws :
        grns' = generateGRNs(purchaseOrders, cfg.grnRatio, shuffled, days)
    /\ pc' = "invoices_call"
    /\ UNCHANGED <<cfg, acfg, vendors, purchaseOrders, invoices, payments, manifest, err, ctx,
                   first, taxonomy, prHeaders, prLines, quotations, written, streams>>
    /\ UNCHANGED injectorVars

\* the seeded draws of one generateInvoices call
InvoiceDraws ==
    {[days |-> 0, variance |-> 0, status |-> "approved", due |-> 15],
     [days |-> 29, variance |-> 3, status |-> "paid", due |-> NoVal],
     [days |-> 0, variance |-> 0, status |-> "draft", due |-> 15]}

HasGRN(gs, poNo) == \E k \in DOMAIN gs : gs[k].po_no = poNo
\* grnByPO.get(po_no)[0]
FirstGRN(gs, poNo) ==
    gs[CHOOSE k \in DOMAIN gs :
        gs[k].po_no = poNo /\ \A m \in DOMAIN gs : gs[m].po_no = poNo => k <= m]

generateInvoices(pos, gs, invoiceRatio, shuffled, d) ==
    LET posToInvoice == PctCount(Len(shuffled), invoiceRatio)
        prioritized == SelectSeq(shuffled, LAMBDA i : HasGRN(gs, pos[i].po_no))
                       \o SelectSeq(shuffled, LAMBDA i : ~HasGRN(gs, pos[i].po_no))
        selectedPOs == SortBy(Take(prioritized, posToInvoice), [i \in DOMAIN pos |-> pos[i].po_date])
        yearOf == [i \in DOMAIN pos |-> getFullYear(pos[i].po_date)]
    IN [k \in DOMAIN selectedPOs |->
            LET po == pos[selectedPOs[k]]
                hasGrn == HasGRN(gs, po.po_no)
                baseDate == IF hasGrn THEN Max(FirstGRN(gs, po.po_no).grn_date, po.po_date)
                            ELSE po.po_date
                invoiceDate == addDays(baseDate, d.days)
                invoiceAmount == applyAmountVariance(po.order_amount, d.variance)
                taxAmount == calculateTax(invoiceAmount, TaxRateOf(po))
            IN Invoice(generateInvoiceNumber(yearOf[selectedPOs[k]],
                                             YearCounter(selectedPOs, k, yearOf)),
                       po.vendor_id, po.po_no,
                       IF hasGrn THEN FirstGRN(gs, po.po_no).grn_no ELSE Undef,
                       invoiceDate,
                       IF d.due = NoVal THEN NoVal ELSE addDays(invoiceDate, d.due),
                       invoiceAmount, taxAmount, FloatSum(invoiceAmount, taxAmount),
                       d.status)]

GenerateInvoices ==
    /\ pc = "invoices_call"
    /\ \E shuffled \in ShuffleDraws(EligiblePOs(purchaseOrders)),
          d \in InvoiceDraws :
        invoices' = generateInvoices(purchaseOrders, grns, cfg.invoiceRatio, shuffled, d)
    /\ pc' = "payments_call"
    /\ UNCHANGED <<cfg, acfg, vendors, purchaseOrders, grns, payments, manifest, err, ctx, first, taxonomy, prHeaders, prLines, quotations, written, streams>>
    /\ UNCHANGED injectorVars

IsApprovedOrPaid(inv) == inv.status = "approved" \/ inv.status = "paid"

\* invoices.filter(inv => approved or paid), as indices
EligibleInvoices(invs) == SelectSeq(Identity(Len(invs)), LAMBDA i : IsApprovedOrPaid(invs[i]))

\* Math.floor(rng() * 60)
PaymentDayDraws == {0, 59}

generatePayments(invs, paymentRatio, shuffled, days) ==
    LET invoicesToPay == PctCount(Len(shuffled), paymentRatio)
        selectedInvoices == SortBy(Take(shuffled, invoicesToPay), [i \in DOMAIN invs |-> invs[i].invoice_date])
        yearOf == [i \in DOMAIN invs |-> getFullYear(invs[i].invoice_date)]
    IN [k \in DOMAIN selectedInvoices |->
            LET invoice == invs[selectedInvoices[k]] IN
            Payment(generatePaymentId(yearOf[selectedInvoices[k]],
                                      YearCounter(selectedInvoices, k, yearOf)),
                    invoice.invoice_no, invoice.vendor_id,
                    addDays(invoice.invoice_date, days), invoice.total_amount)]

GeneratePayments ==
    /\ pc = "payments_call"
    /\ \E shuffled \in ShuffleDraws(EligibleInvoices(invoices)),
          days \in PaymentDayDraws :
        payments' = generatePayments(invoices, cfg.paymentRatio, shuffled, days)
    /\ pc' = "generated"
    /\ UNCHANGED <<cfg, acfg, vendors, purchaseOrders, grns, invoices, manifest, err, ctx, first, taxonomy, prHeaders, prLines, quotations, written, streams>>
    /\ UNCHANGED injectorVars

----------------------------------------------------------------------------
(* The constraint pass (constraints.ts).                                   *)

\* config.topVendorRatio ?? 0.4, the 0.2 of topVendorCount, config.goodsServiceSplit
\* ?? 0.7, as percentages; config.creditDays ?? 30
TopVendorRatioPct == 40
TopVendorSharePct == 20
GoodsServiceSplitPct == 70
CreditDays == 30

\* the rest of the loop over the purchase orders, from the k-th on; ok is FALSE when
\* otherVendors is empty and otherVendors[0].vendor_id is read (a TypeError)
RECURSIVE DistributeFrom(_, _, _, _, _, _, _, _)
DistributeFrom(pos, k, topVendorPOsAssigned, otherVendorPOsAssigned, topVendorIds, otherVendorIds, topVendorPOs, draw) ==
    IF k > Len(pos) THEN [purchaseOrders |-> pos, ok |-> TRUE]
    ELSE LET isTop == \E j \in DOMAIN topVendorIds : topVendorIds[j] = pos[k].vendor_id
             otherVendorPOs == Len(pos) - topVendorPOs
         IN
         IF topVendorPOsAssigned < topVendorPOs /\ isTop
         THEN DistributeFrom(pos, k + 1, topVendorPOsAssigned + 1, otherVendorPOsAssigned,
                             topVendorIds, otherVendorIds, topVendorPOs, draw)
         ELSE IF topVendorPOsAssigned < topVendorPOs
         THEN DistributeFrom(
                [pos EXCEPT ![k].vendor_id = topVendorIds[PickIndex(draw, Len(topVendorIds))]],
                k + 1, topVendorPOsAssigned + 1, otherVendorPOsAssigned,
                topVendorIds, otherVendorIds, topVendorPOs, draw)
         ELSE IF otherVendorPOsAssigned < otherVendorPOs
         THEN IF ~isTop
              THEN DistributeFrom(pos, k + 1, topVendorPOsAssigned, otherVendorPOsAssigned + 1,
                                  topVendorIds, otherVendorIds, topVendorPOs, draw)
              ELSE IF otherVendorIds = <<>>
              THEN [purchaseOrders |-> pos, ok |-> FALSE]
              ELSE DistributeFrom(
                     [pos EXCEPT ![k].vendor_id =
                                    otherVendorIds[PickIndex(draw, Len(otherVendorIds))]],
                     k + 1, topVendorPOsAssigned, otherVendorPOsAssigned + 1,
                     topVendorIds, otherVendorIds, topVendorPOs, draw)
         ELSE DistributeFrom(pos, k + 1, topVendorPOsAssigned, otherVendorPOsAssigned,
                             topVendorIds, otherVendorIds, topVendorPOs, draw)

applyVendorDistribution(pos, vs, draw) ==
    LET topVendorCount == Max(1, PctCount(Len(vs), TopVendorSharePct))
        sortedVendors == SortBy(Identity(Len(vs)), [i \in DOMAIN vs |-> vs[i].created_date])
        sortedIds == [j \in DOMAIN sortedVendors |-> vs[sortedVendors[j]].vendor_id]
    IN DistributeFrom(pos, 1, 0, 0,
                      Take(sortedIds, topVendorCount),
                      SubSeq(sortedIds, topVendorCount + 1, Len(sortedIds)),
                      PctCount(Len(pos), TopVendorRatioPct), draw)

\* keeps the GRNs of the goodsPOs purchase orders of highest total_amount
applyGoodsServiceSplit(pos, gs) ==
    LET goodsPOs == PctCount(Len(pos), GoodsServiceSplitPct)
        sortedPOs == SortBy(Identity(Len(pos)), [i \in DOMAIN pos |-> 0 - pos[i].total_amount])
        goodsPONos == {pos[i].po_no : i \in Range(Take(sortedPOs, goodsPOs))}
    IN SelectSeq(gs, LAMBDA grn : grn.po_no \in goodsPONos)

\* Math.round((invoice_amount + tax_amount) * 100) / 100
ConstrainedTotal(invoice) == Round2(FloatSum(invoice.invoice_amount, invoice.tax_amount))

applyInvoiceAmountConstraints(invs) ==
    [i \in DOMAIN invs |-> [invs[i] EXCEPT !.total_amount = ConstrainedTotal(invs[i])]]

\* new Map(invoices.map(...)).get(invoiceNo): the last invoice under the number
LastInvoice(invs, invoiceNo) ==
    invs[CHOOSE k \in DOMAIN invs :
        invs[k].invoice_no = invoiceNo
        /\ \A m \in DOMAIN invs : invs[m].invoice_no = invoiceNo => m <= k]

FillDueDates(invs) ==
    [i \in DOMAIN invs |->
        IF invs[i].due_date = NoVal /\ invs[i].invoice_date # NoVal
        THEN [invs[i] EXCEPT !.due_date = addDays(invs[i].invoice_date, CreditDays)]
        ELSE invs[i]]

ClampPaymentDates(invs, pays) ==
    [i \in DOMAIN pays |->
        IF /\ \E k \in DOMAIN invs : invs[k].invoice_no = pays[i].invoice_no
           /\ pays[i].payment_date < LastInvoice(invs, pays[i].invoice_no).invoice_date
        THEN [pays[i] EXCEPT
                !.payment_date = LastInvoice(invs, pays[i].invoice_no).invoice_date]
        ELSE pays[i]]

\* applyConstraints(data, config), the four passes in the order of the source
ApplyConstraints ==
    /\ pc = "generated"
    /\ \E draw \in {"first", "last"} :
        LET distributed == applyVendorDistribution(purchaseOrders, vendors, draw) IN
        /\ purchaseOrders' = distributed.purchaseOrders
        /\ IF distributed.ok
           THEN /\ grns' = applyGoodsServiceSplit(distributed.purchaseOrders, grns)
                /\ invoices' = FillDueDates(applyInvoiceAmountConstraints(invoices))
                /\ payments' = ClampPaymentDates(invoices, payments)
                /\ pc' = "constrained"
                /\ err' = err
           ELSE /\ pc' = "failed"
                /\ err' = "TypeError: Cannot read properties of undefined"
                /\ UNCHANGED <<grns, invoices, payments>>
    /\ ctx' = [ctx EXCEPT !.constraintPasses = @ + 1]
    /\ UNCHANGED <<cfg, acfg, vendors, manifest, first, taxonomy, prHeaders, prLines, quotations, written, streams>>
    /\ UNCHANGED injectorVars

Abs(x) == IF x < 0 THEN 0 - x ELSE x

\* validateDataset(data, config): the violations of the four categories it recomputes
\* from the normalizer's rules (the linkage and sequencing counts are left out)
validateDataset(vs, pos, gs, invs) ==
    LET topVendorCount == Max(1, PctCount(Len(vs), TopVendorSharePct))
        sortedVendors == SortBy(Identity(Len(vs)), [i \in DOMAIN vs |-> vs[i].created_date])
        topVendorIds == {vs[sortedVendors[j]].vendor_id : j \in 1..Min(topVendorCount, Len(vs))}
        topVendorPOs == Cardinality({i \in DOMAIN pos : pos[i].vendor_id \in topVendorIds})
        variance == Abs(topVendorPOs - PctCount(Len(pos), TopVendorRatioPct))
        expectedGoodsPOs == PctCount(Len(pos), GoodsServiceSplitPct)
        goodsPOsWithGRN == Cardinality({i \in DOMAIN pos : HasGRN(gs, pos[i].po_no)})
        servicePOsWithGRN == Len(pos) - expectedGoodsPOs - (Len(pos) - goodsPOsWithGRN)
    IN [vendorDistribution |-> IF variance * 10 > Len(pos) THEN variance ELSE 0,
        goodsServiceGRN |-> IF servicePOsWithGRN > 0 THEN servicePOsWithGRN ELSE 0,
        invoiceAmount |->
            Cardinality({i \in DOMAIN invs :
                Abs(invs[i].total_amount
                    - FloatSum(invs[i].invoice_amount, invs[i].tax_amount)) > Cent}),
        paymentDueDate |->
            Cardinality({i \in DOMAIN invs :
                /\ invs[i].due_date # NoVal /\ invs[i].invoice_date # NoVal
                /\ Abs(invs[i].due_date - addDays(invs[i].invoice_date, CreditDays)) > 1})]

\* validateDataset called on the normalized dataset; it reads the arrays and sorts a
\* copy of the vendors
ValidateDataset ==
    /\ pc = "constrained"
    /\ ctx' = [ctx EXCEPT !.validation = validateDataset(vendors, purchaseOrders, grns, invoices)]
    /\ pc' = "validated"
    /\ UNCHANGED <<cfg, acfg, vendors, purchaseOrders, grns, invoices, payments, manifest, err,
                   first, taxonomy, prHeaders, prLines, quotations, written, streams>>
    /\ UNCHANGED injectorVars

BaseConfigs ==
    {GeneratorConfig(vendorCount, poCount, years, poCount, ratios, FALSE) :
        vendorCount \in 1..MaxVendors, poCount \in 1..MaxPOs,
        years \in YearRanges, ratios \in Ratios}

InitBase ==
    /\ pc = "base_call"
    /\ cfg \in BaseConfigs
    /\ acfg = <<>>
    /\ EmptyDataset
    /\ NoInjectorState
    /\ manifest = <<>>
    /\ err = "none"
    /\ ctx = CtxInit
    /\ first = <<>>
    /\ taxonomy = ScenarioTaxonomy
    /\ prHeaders = <<>>
    /\ prLines = <<>>
    /\ quotations = <<>>
    /\ written = NothingWritten
    /\ streams = NoStreams

NextBase ==
    \/ GenerateBaseVendors
    \/ EnterPurchaseOrders
    \/ GeneratePurchaseOrder
    \/ NextYear
    \/ PurchaseOrderLoopExhausted
    \/ GenerateGRNs
    \/ GenerateInvoices
    \/ GeneratePayments
    \/ ApplyConstraints
    \/ ValidateDataset

SpecBase == InitBase /\ [][NextBase]_vars

----------------------------------------------------------------------------
(* The chunked generator (chunkedGenerator.ts) and runGeneration.          *)

\* the seeded draws of one purchase order of a chunk and of its GRN, invoice and
\* payment; a roll is rng() in percent, compared with the ratio
ChunkDraws ==
    {[vendor |-> "first", year |-> "first", orderAmount |-> Amount(9558696), taxRate |-> 5,
      status |-> "approved", day |-> 10, grnRoll |-> 0, invoiceRoll |-> 0, paymentRoll |-> 0,
      grnDays |-> 1, invoiceDays |-> 1, paymentDays |-> 5],
     [vendor |-> "last", year |-> "last", orderAmount |-> Amount(10000000), taxRate |-> 5,
      status |-> "draft", day |-> 300, grnRoll |-> 95, invoiceRoll |-> 0, paymentRoll |-> 0,
      grnDays |-> 30, invoiceDays |-> 45, paymentDays |-> 34],
     [vendor |-> "last", year |-> "last", orderAmount |-> Amount(10000000), taxRate |-> 5,
      status |-> "completed", day |-> 300, grnRoll |-> 95, invoiceRoll |-> 95,
      paymentRoll |-> 95, grnDays |-> 30, invoiceDays |-> 45, paymentDays |-> 34]}

\* startYear + Math.floor(rng() * (endYear - startYear + 1))
PickYear(draw) == IF draw = "first" THEN cfg.startYear ELSE cfg.endYear

\* Math.ceil(poCount / chunkSize)
TotalChunks == (cfg.poCount + cfg.chunkSize - 1) \div cfg.chunkSize

generatePOsChunk(startIndex, count, vs, draws) ==
    IF ActiveVendors(vs) = <<>> THEN <<>>
    ELSE [i \in 1..count |-> NewPO(PickYear(draws[i].year), startIndex + i, vs, draws[i])]

generateGRNsChunk(chunkPOs, draws, poIndexMapSize) ==
    LET posForGRN == SelectSeq(Identity(Len(chunkPOs)),
                               LAMBDA i : draws[i].grnRoll < cfg.grnRatio)
        grnSequence == poIndexMapSize - Len(posForGRN) + 1
    IN [k \in DOMAIN posForGRN |->
            LET po == chunkPOs[posForGRN[k]] IN
            GRN(generateGRNNumber(getFullYear(po.po_date), grnSequence + k - 1),
                po.po_no, po.vendor_id, addDays(po.po_date, draws[posForGRN[k]].grnDays))]

\* new Map(grns.map(grn => [grn.po_no, grn])).get(po_no): the last GRN of the PO
LastGRN(gs, poNo) ==
    gs[CHOOSE k \in DOMAIN gs :
        gs[k].po_no = poNo /\ \A m \in DOMAIN gs : gs[m].po_no = poNo => m <= k]

\* the counter restarted in every chunk
InvoiceSequencePerChunk(invoiceIndexMapSize, k) == k

\* `let invoiceSequence = context.invoiceIndexMap.size + 1`, at the k-th `invoiceSequence++`
InvoiceSequence(invoiceIndexMapSize, k) == invoiceIndexMapSize + k

generateInvoicesChunk(chunkPOs, chunkGRNs, draws, invoiceIndexMapSize) ==
    LET eligiblePOs == SelectSeq(Identity(Len(chunkPOs)),
                                 LAMBDA i : draws[i].invoiceRoll < cfg.invoiceRatio)
    IN [k \in DOMAIN eligiblePOs |->
            LET po == chunkPOs[eligiblePOs[k]]
                d == draws[eligiblePOs[k]]
                hasGrn == HasGRN(chunkGRNs, po.po_no)
                invoiceDate == IF hasGrn
                               THEN addDays(LastGRN(chunkGRNs, po.po_no).grn_date, d.invoiceDays)
                               ELSE addDays(po.po_date, d.invoiceDays)
            IN Invoice(generateInvoiceNumber(getFullYear(po.po_date),
                                             InvoiceSequence(invoiceIndexMapSize, k)),
                       po.vendor_id, po.po_no,
                       IF hasGrn THEN LastGRN(chunkGRNs, po.po_no).grn_no ELSE Undef,
                       invoiceDate, addDays(invoiceDate, 30),
                       po.order_amount, po.tax_amount,
                       FloatSum(po.order_amount, po.tax_amount), "pending_approval")]

\* the draws of the purchase order an invoice of the chunk was made for
DrawOfInvoice(chunkPOs, draws, invoice) ==
    draws[CHOOSE i \in DOMAIN chunkPOs : chunkPOs[i].po_no = invoice.po_no]

generatePaymentsChunk(chunkPOs, chunkInvoices, draws) ==
    LET eligibleInvoices ==
            SelectSeq(chunkInvoices,
                      LAMBDA inv : DrawOfInvoice(chunkPOs, draws, inv).paymentRoll
                                   < cfg.paymentRatio)
    IN [k \in DOMAIN eligibleInvoices |->
            LET invoice == eligibleInvoices[k] IN
            Payment(generatePaymentId(getFullYear(invoice.invoice_date), k),
                    invoice.invoice_no, invoice.vendor_id,
                    addDays(invoice.invoice_date,
                            DrawOfInvoice(chunkPOs, draws, invoice).paymentDays),
                    invoice.total_amount)]

\* runGeneration: the vendors, generated up front
RunGenerationVendors ==
    /\ pc = "run_call"
    /\ \E pattern \in VendorPatterns, companyName \in FakerNames :
        /\ vendors' = generateVendors(cfg.vendorCount, pattern, cfg.startYear, companyName)
        /\ ctx' = [ctx EXCEPT !.vendorDraw = pattern, !.chunkIndex = 0,
                              !.poSequenceCounter = 0]
    /\ written' = WriteRows(written, "vendors", vendors')
    /\ pc' = "chunks"
    /\ UNCHANGED <<cfg, acfg, purchaseOrders, grns, invoices, payments, manifest, err, first,
                   taxonomy, prHeaders, prLines, quotations, streams>>
    /\ UNCHANGED injectorVars

\* the chunk one iteration of the loop of generateChunkedData yields
GeneratedChunk(chunkPOCount, draws) ==
    LET chunkPOs == generatePOsChunk(ctx.poSequenceCounter, chunkPOCount, vendors, draws)
        chunkGRNs == generateGRNsChunk(chunkPOs, draws, Len(purchaseOrders) + Len(chunkPOs))
        chunkInvoices == generateInvoicesChunk(chunkPOs, chunkGRNs, draws, Len(invoices))
        chunkPayments == generatePaymentsChunk(chunkPOs, chunkInvoices, draws)
    IN [purchaseOrders |-> chunkPOs, grns |-> chunkGRNs, invoices |-> chunkInvoices,
        payments |-> chunkPayments]

\* one iteration of the loop of generateChunkedData, and runGeneration pushing the
\* chunk it yields onto allData
GenerateChunk ==
    /\ pc = "chunks"
    /\ ctx.chunkIndex < TotalChunks
    /\ LET chunkPOCount == Min(cfg.chunkSize, cfg.poCount - ctx.poSequenceCounter) IN
       \E draws \in [1..chunkPOCount -> ChunkDraws] :
        LET chunk == GeneratedChunk(chunkPOCount, draws)
            chunkPOs == chunk.purchaseOrders
            chunkGRNs == chunk.grns
            chunkInvoices == chunk.invoices
            chunkPayments == chunk.payments
        IN
        /\ purchaseOrders' = purchaseOrders \o chunkPOs
        /\ grns' = grns \o chunkGRNs
        /\ invoices' = invoices \o chunkInvoices
        /\ payments' = payments \o chunkPayments
        /\ written' = WriteRows(WriteRows(WriteRows(WriteRows(written,
                            "purchaseOrders", chunkPOs), "grns", chunkGRNs),
                            "invoices", chunkInvoices), "payments", chunkPayments)
        /\ ctx' = [ctx EXCEPT !.chunkIndex = @ + 1,
                              !.poSequenceCounter = @ + chunkPOCount]
    /\ UNCHANGED <<pc, cfg, acfg, vendors, manifest, err, first, taxonomy, prHeaders, prLines, quotations, streams>>
    /\ UNCHANGED injectorVars

\* the loop over the chunks has ended: `if (anomalyConfig)`
RunGenerationChunksDone ==
    /\ pc = "chunks"
    /\ ctx.chunkIndex >= TotalChunks
    /\ pc' = IF cfg.hasAnomalyConfig THEN "inject_call" ELSE "manifest_call"
    /\ UNCHANGED <<cfg, acfg, vendors, purchaseOrders, grns, invoices, payments, manifest, err,
                   ctx, first, taxonomy, prHeaders, prLines, quotations, written, streams>>
    /\ UNCHANGED injectorVars

\* every test step counted once, however many records it has
TallyPresence(records) ==
    [t \in {records[i].test_step_id : i \in DOMAIN records} |-> 1]

\* expectedExceptionCountsByTestStep[testStepId] = (... || 0) + 1, over the records
TallyByTestStep(records) ==
    [t \in {records[i].test_step_id : i \in DOMAIN records} |->
        Cardinality({i \in DOMAIN records : records[i].test_step_id = t})]

generateManifest(truth) ==
    [dateRange |-> [startYear |-> cfg.startYear, endYear |-> cfg.endYear],
     counts |-> [vendors |-> Len(vendors), purchaseOrders |-> Len(purchaseOrders),
                 grns |-> Len(grns), invoices |-> Len(invoices),
                 payments |-> Len(payments), truthRecords |-> Len(truth)],
     expectedExceptionCountsByTestStep |-> TallyByTestStep(truth)]

\* runGeneration after the injection (or without it): the truth rows, the manifest
\* of the run, close() and, `await` of its undefined result being a microtask, the
\* return
GenerateManifest ==
    /\ pc \in {"injected", "manifest_call"}
    /\ written' = IF Len(truthRecords) > 0
                  THEN WriteRows(written, "truth", truthRecords) ELSE written
    /\ manifest' = generateManifest(truthRecords)
    /\ streams' = EndStreams(streams)
    /\ pc' = "done"
    /\ UNCHANGED <<cfg, acfg, vendors, purchaseOrders, grns, invoices, payments, err, ctx, first,
                   taxonomy, prHeaders, prLines, quotations>>
    /\ UNCHANGED injectorVars

Pending(file) == Len(written[file]) - streams.flushed[file]

\* the event loop, reached once runGeneration has returned: the queued writes of the
\* streams complete
StreamsDrain ==
    /\ pc = "done"
    /\ \E file \in Files : Pending(file) > 0
    /\ streams' = [streams EXCEPT !.flushed = [file \in Files |-> Len(written[file])]]
    /\ UNCHANGED <<pc, cfg, acfg, vendors, purchaseOrders, grns, invoices, payments, manifest,
                   err, ctx, first, taxonomy, prHeaders, prLines, quotations, written>>
    /\ UNCHANGED injectorVars

\* the ended streams, their rows on disk, emit 'finish'
StreamsFinish ==
    /\ pc = "done"
    /\ streams.ended /\ ~streams.finished
    /\ \A file \in Files : Pending(file) = 0
    /\ streams' = [streams EXCEPT !.finished = TRUE]
    /\ UNCHANGED <<pc, cfg, acfg, vendors, purchaseOrders, grns, invoices, payments, manifest,
                   err, ctx, first, taxonomy, prHeaders, prLines, quotations, written>>
    /\ UNCHANGED injectorVars

\* the anomaly configs of the modelled runs
RunAnomalyConfigs ==
    {<<>>,
     [inactive_vendor_used_pct |-> 100],
     [invoice_without_grn_pct |-> 100, payment_before_invoice_pct |-> 50]}

DefaultRatios == [grn |-> 80, invoice |-> 90, payment |-> 85]

RunConfigs ==
    {GeneratorConfig(vendorCount, poCount, years, chunkSize, DefaultRatios, hasAnomalyConfig) :
        vendorCount \in 1..MaxVendors, poCount \in 1..MaxPOs, years \in YearRanges,
        chunkSize \in 1..MaxPOs, hasAnomalyConfig \in BOOLEAN}

InitRun ==
    /\ pc = "run_call"
    /\ cfg \in RunConfigs
    /\ acfg \in (IF cfg.hasAnomalyConfig THEN RunAnomalyConfigs ELSE {<<>>})
    /\ EmptyDataset
    /\ NoInjectorState
    /\ manifest = <<>>
    /\ err = "none"
    /\ ctx = CtxInit
    /\ first = <<>>
    /\ taxonomy = ScenarioTaxonomy
    /\ prHeaders = <<>>
    /\ prLines = <<>>
    /\ quotations = <<>>
    /\ written = NothingWritten
    /\ streams = NoStreams

NextRun ==
    \/ RunGenerationVendors
    \/ GenerateChunk
    \/ RunGenerationChunksDone
    \/ InjectAnomaliesCall
    \/ MissingPanGstStep
    \/ DuplicateVendorPanStep
    \/ DuplicateVendorBankStep
    \/ VendorWithoutApprovalStep
    \/ BankChangeUnverifiedStep
    \/ InactiveVendorUsedStep
    \/ DuplicateInvoiceNumberStep
    \/ InvoiceWithoutGrnStep
    \/ PaymentBeforeInvoiceStep
    \/ InjectAnomaliesReturn
    \/ GenerateManifest
    \/ StreamsDrain
    \/ StreamsFinish

SpecRun == InitRun /\ [][NextRun]_vars

----------------------------------------------------------------------------
(* generateChunkedData consumed twice with one seed and one configuration  *)
(* but for chunkSize.  Both calls seed the same generator, so the vendors, *)
(* drawn first, are the same; each purchase order is given the draws it    *)
(* had in the first call.                                                  *)

\* before the first chunk is yielded
NoChunk == [purchaseOrders |-> <<>>, grns |-> <<>>, invoices |-> <<>>, payments |-> <<>>]

ChunkedOutput ==
    [purchaseOrders |-> purchaseOrders, grns |-> grns, invoices |-> invoices,
     payments |-> payments]

\* the records of one chunk appended to the output so far, the loop counters advanced
ConsumeChunk(chunkPOCount, draws) ==
    LET chunk == GeneratedChunk(chunkPOCount, draws) IN
    /\ purchaseOrders' = purchaseOrders \o chunk.purchaseOrders
    /\ grns' = grns \o chunk.grns
    /\ invoices' = invoices \o chunk.invoices
    /\ payments' = payments \o chunk.payments
    /\ ctx' = [ctx EXCEPT !.chunkIndex = @ + 1,
                          !.poSequenceCounter = @ + chunkPOCount,
                          !.draws = IF pc = "first_chunks" THEN @ \o draws ELSE @,
                          !.chunk = chunk]

ChunkedVendors ==
    /\ pc = "chunked_call"
    /\ \E pattern \in VendorPatterns, companyName \in FakerNames :
        /\ vendors' = generateVendors(cfg.vendorCount, pattern, cfg.startYear, companyName)
        /\ ctx' = [ctx EXCEPT !.vendorDraw = pattern]
    /\ pc' = "first_chunks"
    /\ UNCHANGED <<cfg, acfg, purchaseOrders, grns, invoices, payments, manifest, err, first,
                   taxonomy, prHeaders, prLines, quotations, written, streams>>
    /\ UNCHANGED injectorVars

FirstChunk ==
    /\ pc = "first_chunks"
    /\ ctx.chunkIndex < TotalChunks
    /\ LET chunkPOCount == Min(cfg.chunkSize, cfg.poCount - ctx.poSequenceCounter) IN
       \E draws \in [1..chunkPOCount -> ChunkDraws] : ConsumeChunk(chunkPOCount, draws)
    /\ UNCHANGED <<pc, cfg, acfg, vendors, manifest, err, first, taxonomy, prHeaders, prLines, quotations, written,
                   streams>>
    /\ UNCHANGED injectorVars

\* the first call is exhausted; the second call, with another chunkSize
SecondChunkedCall ==
    /\ pc = "first_chunks"
    /\ ctx.chunkIndex >= TotalChunks
    /\ first' = ChunkedOutput
    /\ \E chunkSize \in (1..MaxPOs) \ {cfg.chunkSize} :
        cfg' = [cfg EXCEPT !.chunkSize = chunkSize]
    /\ purchaseOrders' = <<>> /\ grns' = <<>> /\ invoices' = <<>> /\ payments' = <<>>
    /\ ctx' = [ctx EXCEPT !.chunkIndex = 0, !.poSequenceCounter = 0]
    /\ pc' = "second_chunks"
    /\ UNCHANGED <<acfg, vendors, manifest, err, taxonomy, prHeaders, prLines, quotations, written, streams>>
    /\ UNCHANGED injectorVars

SecondChunk ==
    /\ pc = "second_chunks"
    /\ ctx.chunkIndex < TotalChunks
    /\ LET chunkPOCount == Min(cfg.chunkSize, cfg.poCount - ctx.poSequenceCounter) IN
       ConsumeChunk(chunkPOCount,
                    [k \in 1..chunkPOCount |-> ctx.draws[ctx.poSequenceCounter + k]])
    /\ UNCHANGED <<pc, cfg, acfg, vendors, manifest, err, first, taxonomy, prHeaders, prLines, quotations, written,
                   streams>>
    /\ UNCHANGED injectorVars

SecondChunkedDone ==
    /\ pc = "second_chunks"
    /\ ctx.chunkIndex >= TotalChunks
    /\ pc' = "chunked_done"
    /\ UNCHANGED <<cfg, acfg, vendors, purchaseOrders, grns, invoices, payments, manifest, err,
                   ctx, first, taxonomy, prHeaders, prLines, quotations, written, streams>>
    /\ UNCHANGED injectorVars

ChunkedConfigs ==
    {GeneratorConfig(vendorCount, poCount, years, chunkSize, DefaultRatios, FALSE) :
        vendorCount \in 1..MaxVendors, poCount \in 1..MaxPOs, years \in YearRanges,
        chunkSize \in 1..MaxPOs}

InitChunked ==
    /\ pc = "chunked_call"
    /\ cfg \in ChunkedConfigs
    /\ acfg = <<>>
    /\ EmptyDataset
    /\ NoInjectorState
    /\ manifest = <<>>
    /\ err = "none"
    /\ ctx = [draws |-> <<>>, chunk |-> NoChunk] @@ CtxInit
    /\ first = <<>>
    /\ taxonomy = ScenarioTaxonomy
    /\ prHeaders = <<>>
    /\ prLines = <<>>
    /\ quotations = <<>>
    /\ written = NothingWritten
    /\ streams = NoStreams

NextChunked ==
    \/ ChunkedVendors
    \/ FirstChunk
    \/ SecondChunkedCall
    \/ SecondChunk
    \/ SecondChunkedDone

SpecChunked == InitChunked /\ [][NextChunked]_vars

----------------------------------------------------------------------------
(* Extended entities: the requisitions and quotations of generateBaseData  *)
(* (extendedGenerators.ts) and the requisitions generateChunkedData makes  *)
(* inline in every iteration of its loop.                                  *)

generatePRNumber(year, sequence) == <<"PR", year, sequence>>
generatePRLineId(year, prSequence, lineNumber) == <<"PRL", year, prSequence, lineNumber>>
generateQuotationId(year, sequence) == <<"QUO", year, sequence>>

RECURSIVE Flatten(_)
Flatten(seqs) == IF seqs = <<>> THEN <<>> ELSE Head(seqs) \o Flatten(Tail(seqs))

\* Math.floor(poCount * 0.8)
PRCount(poCount) == (poCount * 8) \div 10

\* the seeded draws of one requisition of generatePRHeadersAndLines: the day of the
\* year, rng() > 0.3, the order picked, the days subtracted, the number of lines
PRDraws ==
    {[day |-> 5, link |-> TRUE, pick |-> "first", back |-> 1, lineCount |-> 1],
     [day |-> 200, link |-> TRUE, pick |-> "first", back |-> 30, lineCount |-> 2],
     [day |-> 350, link |-> TRUE, pick |-> "last", back |-> 1, lineCount |-> 3],
     [day |-> 200, link |-> FALSE, pick |-> "first", back |-> 1, lineCount |-> 2]}

\* the requisition generatePRHeadersAndLines pushes as its prSequence-th, with its lines
NewPR(year, prSequence, yearPOs, d) ==
    LET prDate == year * DaysPerYear + d.day
        linked == Len(yearPOs) > 0 /\ d.link
        linkedPO == yearPOs[PickIndex(d.pick, Len(yearPOs))]
        actualPRDate == IF linked /\ prDate > linkedPO.po_date
                        THEN subtractDays(linkedPO.po_date, d.back)
                        ELSE prDate
        prNo == generatePRNumber(year, prSequence)
    IN [header |-> [pr_no |-> prNo, pr_date |-> actualPRDate,
                    status |-> IF linked THEN "converted" ELSE "draft",
                    approval_status |-> IF linked THEN "approved" ELSE "pending",
                    total_amount |-> IF linked THEN linkedPO.total_amount
                                     ELSE Amount(1000000)],
        lines |-> [lineNum \in 1..d.lineCount |->
                    [pr_line_id |-> generatePRLineId(year, prSequence, lineNum),
                     pr_no |-> prNo, line_number |-> lineNum,
                     po_no |-> IF linked /\ lineNum = d.lineCount
                               THEN linkedPO.po_no ELSE Undef,
                     status |-> IF linked /\ lineNum = d.lineCount
                                THEN "converted" ELSE "open"]]]

\* generatePRHeadersAndLines for a range of one year (with more years the purchase
\* orders are never returned): startYear is endYear and yearEnd is prCount
generatePRHeadersAndLines(prCount, pos, draws) ==
    LET year == cfg.startYear
        yearPOs == SelectSeq(pos, LAMBDA po : getFullYear(po.po_date) = year)
        prs == [k \in 1..prCount |-> NewPR(year, k, yearPOs, draws[k])]
    IN [prHeaders |-> [k \in 1..prCount |-> prs[k].header],
        prLines |-> Flatten([k \in 1..prCount |-> prs[k].lines])]

GeneratePRHeadersAndLines ==
    /\ pc = "prs_call"
    /\ \E draws \in [1..PRCount(cfg.poCount) -> PRDraws] :
        LET prs == generatePRHeadersAndLines(PRCount(cfg.poCount), purchaseOrders, draws) IN
        /\ prHeaders' = prs.prHeaders
        /\ prLines' = prs.prLines
    /\ pc' = "quotations_call"
    /\ UNCHANGED <<cfg, acfg, vendors, purchaseOrders, grns, invoices, payments, manifest, err,
                   ctx, first, taxonomy, quotations, written, streams>>
    /\ UNCHANGED injectorVars

\* const highValueThreshold = 50000
HighValueThreshold == Amount(5000000)

\* the seeded draws of the quotations of one purchase order: their number and the
\* days before the order
QuotationDraws ==
    {[quoteCount |-> 1, days |-> 1], [quoteCount |-> 2, days |-> 60],
     [quoteCount |-> 3, days |-> 30]}

generateQuotations(pos, draws) ==
    LET highValuePOs == SelectSeq(Identity(Len(pos)),
                                  LAMBDA i : pos[i].total_amount >= HighValueThreshold)
        yearOf == [i \in DOMAIN pos |-> getFullYear(pos[i].po_date)]
    IN Flatten([k \in DOMAIN highValuePOs |->
            LET po == pos[highValuePOs[k]]
                \* quotationByYear.get(year): raised by one for every order
                counter == YearCounter(highValuePOs, k, yearOf)
            IN [i \in 1..draws[k].quoteCount |->
                    [quotation_id |-> generateQuotationId(yearOf[highValuePOs[k]],
                                                          counter + (i - 1)),
                     po_no |-> po.po_no, vendor_id |-> po.vendor_id,
                     quotation_date |-> subtractDays(po.po_date, draws[k].days),
                     status |-> IF i = 1 THEN "accepted" ELSE "received",
                     is_selected |-> (i = 1)]]])

GenerateQuotations ==
    /\ pc = "quotations_call"
    /\ \E draws \in [1..Len(purchaseOrders) -> QuotationDraws] :
        quotations' = generateQuotations(purchaseOrders, draws)
    /\ pc' = "extended_done"
    /\ UNCHANGED <<cfg, acfg, vendors, purchaseOrders, grns, invoices, payments, manifest, err,
                   ctx, first, taxonomy, prHeaders, prLines, written, streams>>
    /\ UNCHANGED injectorVars

\* the seeded draws of one requisition made inline by generateChunkedData: its year,
\* the day of the year, the number of lines, and context.rng() > 0.3 of the linking
ChunkPRDraws ==
    {[year |-> "first", day |-> 5, lineCount |-> 1, link |-> TRUE],
     [year |-> "last", day |-> 350, lineCount |-> 2, link |-> TRUE],
     [year |-> "last", day |-> 350, lineCount |-> 3, link |-> FALSE]}

\* the requisitions of the chunk, linked to its purchase orders by index
ChunkPRs(chunkIndex, prCount, chunkPOs, draws) ==
    LET prSequenceStart == chunkIndex * cfg.chunkSize + 1
        year(i) == PickYear(draws[i].year)
        prNo(i) == generatePRNumber(year(i), prSequenceStart + (i - 1))
    IN [prHeaders |-> [i \in 1..prCount |->
            [pr_no |-> prNo(i),
             request_date |-> year(i) * DaysPerYear + draws[i].day,
             status |-> "approved", approval_status |-> "approved",
             total_amount |-> Amount(1000000),
             po_no |-> IF i <= Len(chunkPOs) /\ draws[i].link
                       THEN chunkPOs[i].po_no ELSE Undef]],
        prLines |-> Flatten([i \in 1..prCount |->
            [j \in 1..draws[i].lineCount |->
                [pr_line_id |-> generatePRLineId(year(i), prSequenceStart + (i - 1), j),
                 pr_no |-> prNo(i)]]])]

\* one iteration of the loop of generateChunkedData, its requisitions included, the
\* consumer keeping what every chunk yields
GenerateChunkWithPRs ==
    /\ pc = "pr_chunks"
    /\ ctx.chunkIndex < TotalChunks
    /\ LET chunkPOCount == Min(cfg.chunkSize, cfg.poCount - ctx.poSequenceCounter) IN
       \E draws \in [1..chunkPOCount -> ChunkDraws],
          prDraws \in [1..PRCount(chunkPOCount) -> ChunkPRDraws] :
        LET chunk == GeneratedChunk(chunkPOCount, draws)
            prs == ChunkPRs(ctx.chunkIndex, PRCount(chunkPOCount), chunk.purchaseOrders,
                            prDraws)
        IN
        /\ purchaseOrders' = purchaseOrders \o chunk.purchaseOrders
        /\ grns' = grns \o chunk.grns
        /\ invoices' = invoices \o chunk.invoices
        /\ payments' = payments \o chunk.payments
        /\ prHeaders' = prHeaders \o prs.prHeaders
        /\ prLines' = prLines \o prs.prLines
        /\ ctx' = [ctx EXCEPT !.chunkIndex = @ + 1,
                              !.poSequenceCounter = @ + chunkPOCount]
    /\ UNCHANGED <<pc, cfg, acfg, vendors, manifest, err, first, taxonomy, quotations, written,
                   streams>>
    /\ UNCHANGED injectorVars

\* the configurations of the modelled calls; generateBaseData reaches its extended
\* entities only when the range is one year
ExtendedConfigs ==
    {GeneratorConfig(vendorCount, poCount, years, chunkSize, DefaultRatios, FALSE) :
        vendorCount \in 1..MaxVendors, poCount \in 1..MaxPOs, years \in YearRanges,
        chunkSize \in 1..MaxPOs}

\* generateBaseData after generatePayments, or generateChunkedData before its loop
InitExtended ==
    /\ cfg \in ExtendedConfigs
    /\ acfg = <<>>
    /\ vendors \in {generateVendors(cfg.vendorCount, pattern, cfg.startYear, 1) :
                        pattern \in {"full", "first_inactive"}}
    /\ \/ /\ pc = "prs_call"
          /\ cfg.startYear = cfg.endYear
          /\ cfg.chunkSize = 1
          /\ ActiveVendors(vendors) # <<>>
          /\ purchaseOrders \in
                {[j \in 1..cfg.poCount |-> NewPO(cfg.startYear, j, vendors, d[j])] :
                    d \in [1..cfg.poCount -> PODraws]}
          /\ grns = generateGRNs(purchaseOrders, cfg.grnRatio,
                                 EligiblePOs(purchaseOrders), 0)
          /\ invoices \in
                {generateInvoices(purchaseOrders, grns, cfg.invoiceRatio,
                                  EligiblePOs(purchaseOrders), d) : d \in InvoiceDraws}
          /\ payments = generatePayments(invoices, cfg.paymentRatio,
                                         EligibleInvoices(invoices), 0)
       \/ /\ pc = "pr_chunks"
          /\ purchaseOrders = <<>> /\ grns = <<>> /\ invoices = <<>> /\ payments = <<>>
    /\ NoInjectorState
    /\ manifest = <<>>
    /\ err = "none"
    /\ ctx = CtxInit
    /\ first = <<>>
    /\ taxonomy = ScenarioTaxonomy
    /\ prHeaders = <<>>
    /\ prLines = <<>>
    /\ quotations = <<>>
    /\ written = NothingWritten
    /\ streams = NoStreams

NextExtended ==
    \/ GeneratePRHeadersAndLines
    \/ GenerateQuotations
    \/ GenerateChunkWithPRs

SpecExtended == InitExtended /\ [][NextExtended]_vars

----------------------------------------------------------------------------
(* Two executions of the pipeline with one configuration, up to the vendor *)
(* list: the seeded draws repeat, faker and the clock do not.              *)

\* new Date().getFullYear() at the time of an execution
ClockYears == {2026, 2027}

\* config.startYear ?? currentYear - 1
DefaultStartYear(startYear, currentYear) ==
    IF startYear = NoVal THEN currentYear - 1 ELSE startYear

\* the vendors of one execution: the seeded draws are those of the seed, the
\* company name is faker's, the default years are the clock's
ExecutionVendors(pattern, companyName, currentYear) ==
    generateVendors(cfg.vendorCount, pattern,
                    DefaultStartYear(cfg.startYear, currentYear), companyName)

FirstExecution ==
    /\ pc = "det_first"
    /\ \E pattern \in VendorPatterns, companyName \in FakerNames, currentYear \in ClockYears :
        /\ first' = ExecutionVendors(pattern, companyName, currentYear)
        /\ ctx' = [ctx EXCEPT !.vendorDraw = pattern]
    /\ pc' = "det_second"
    /\ UNCHANGED <<cfg, acfg, vendors, purchaseOrders, grns, invoices, payments, manifest, err,
                   taxonomy, prHeaders, prLines, quotations, written, streams>>
    /\ UNCHANGED injectorVars

\* the same configuration and seed again: the seeded draws are those of the first
\* execution
SecondExecution ==
    /\ pc = "det_second"
    /\ \E companyName \in FakerNames, currentYear \in ClockYears :
        vendors' = ExecutionVendors(ctx.vendorDraw, companyName, currentYear)
    /\ pc' = "det_done"
    /\ UNCHANGED <<cfg, acfg, purchaseOrders, grns, invoices, payments, manifest, err, ctx,
                   first, taxonomy, prHeaders, prLines, quotations, written, streams>>
    /\ UNCHANGED injectorVars

\* startYear and endYear given, or both left to the defaults
DetYearRanges == YearRanges \cup {<<NoVal, NoVal>>}

DetConfigs ==
    {GeneratorConfig(vendorCount, poCount, years, poCount, DefaultRatios, FALSE) :
        vendorCount \in 1..MaxVendors, poCount \in 1..MaxPOs, years \in DetYearRanges}

InitDet ==
    /\ pc = "det_first"
    /\ cfg \in DetConfigs
    /\ acfg = <<>>
    /\ EmptyDataset
    /\ NoInjectorState
    /\ manifest = <<>>
    /\ err = "none"
    /\ ctx = CtxInit
    /\ first = <<>>
    /\ taxonomy = ScenarioTaxonomy
    /\ prHeaders = <<>>
    /\ prLines = <<>>
    /\ quotations = <<>>
    /\ written = NothingWritten
    /\ streams = NoStreams

NextDet ==
    \/ FirstExecution
    \/ SecondExecution

SpecDet == InitDet /\ [][NextDet]_vars

----------------------------------------------------------------------------
(* Properties of the injector.                                             *)

\* the truth records appended by the last injector step
Appended == SubSeq(truthRecords, Len(prev.truthRecords) + 1, Len(truthRecords))
CountWhere(seq, P(_)) == Cardinality({i \in DOMAIN seq : P(seq[i])})

MissingPanRan ==
    /\ last = "missing_pan_pct"
    /\ "missing_pan_pct" \in DOMAIN acfg
    /\ acfg["missing_pan_pct"] > 0
    /\ acfg["missing_pan_pct"] <= 100

\* the vendors of the list the missing-PAN/GST step cleared: k of them, every one
\* eligible before, with pan and gstin cleared, every other vendor untouched
MissingPanCleared(k) ==
    LET changed == {i \in DOMAIN vendors : vendors[i] # prev.vendors[i]} IN
    /\ Len(truthRecords) = Len(prev.truthRecords) + k
    /\ Cardinality(changed) = k
    /\ \A i \in changed :
        /\ i \in MissingPanEligible(prev.vendors)
        /\ vendors[i] = [prev.vendors[i] EXCEPT !.pan = NoVal, !.gstin = NoVal]

\* C4 (amended): one call of the missing-PAN/GST injector with 0 < p <= 100 on a
\* list of N vendors of which E have a pan or a gstin appends exactly
\* min(E, floor(N*p/100)) truth records and clears pan and gstin on exactly that
\* many eligible vendors: the count is taken over the whole list.
C4_MissingPanCardinality ==
    MissingPanRan =>
        MissingPanCleared(Min(Cardinality(MissingPanEligible(prev.vendors)),
                              PctCount(Len(prev.vendors), acfg["missing_pan_pct"])))

\* C4 as stated: the call appends exactly floor(E*p/100) truth records and clears
\* exactly floor(E*p/100) vendors, E the number of eligible vendors.
C4_Original_CountOverEligible ==
    MissingPanRan =>
        MissingPanCleared(PctCount(Cardinality(MissingPanEligible(prev.vendors)),
                                   acfg["missing_pan_pct"]))

\* the injector has run on a list with an ineligible vendor and cleared a vendor
C4_Witness ==
    /\ MissingPanRan
    /\ Cardinality(MissingPanEligible(prev.vendors)) < Len(prev.vendors)
    /\ Len(truthRecords) > Len(prev.truthRecords)

InactiveRan ==
    /\ last = "inactive_vendor_used_pct"
    /\ "inactive_vendor_used_pct" \in DOMAIN acfg
    /\ acfg["inactive_vendor_used_pct"] > 0

\* the vendor ids the last step flipped from active to inactive
Deactivated ==
    {vendors[i].vendor_id : i \in {j \in DOMAIN vendors :
        prev.vendors[j].status = "active" /\ vendors[j].status = "inactive"}}

UsesDeactivated(r) == r.vendor_id \in Deactivated

\* C5: one call of the inactive-vendor injector that flips the set D appends one
\* truth record per PO, per invoice and per payment whose vendor_id is in D, so
\* #POs(D) + #invoices(D) + #payments(D) records in all.
C5_InactiveVendorFanOut ==
    InactiveRan =>
        /\ Len(Appended) = CountWhere(purchaseOrders, UsesDeactivated)
                           + CountWhere(invoices, UsesDeactivated)
                           + CountWhere(payments, UsesDeactivated)
        /\ \A po \in {r \in Range(purchaseOrders) : UsesDeactivated(r)} :
            CountWhere(Appended, LAMBDA t : t.entity_type = "po" /\ t.entity_id = po.po_no) = 1
        /\ \A inv \in {r \in Range(invoices) : UsesDeactivated(r)} :
            CountWhere(Appended, LAMBDA t : t.entity_type = "invoice"
                                            /\ t.entity_id = inv.invoice_no) = 1
        /\ \A pay \in {r \in Range(payments) : UsesDeactivated(r)} :
            CountWhere(Appended, LAMBDA t : t.entity_type = "payment"
                                            /\ t.entity_id = pay.payment_id) = 1

\* one vendor deactivated, referenced by two POs, two invoices and two payments
C5_Witness ==
    /\ InactiveRan
    /\ Cardinality(Deactivated) = 1
    /\ CountWhere(purchaseOrders, UsesDeactivated) = 2
    /\ CountWhere(invoices, UsesDeactivated) = 2
    /\ CountWhere(payments, UsesDeactivated) = 2
    /\ Len(Appended) = 6

\* the anomaly type the injector of a config key plants, and the fields it writes
AnomalyTypeOf ==
    [missing_pan_pct |-> "missing_pan_gst",
     duplicate_vendor_pan_pct |-> "duplicate_vendor_pan",
     duplicate_vendor_bank_pct |-> "duplicate_vendor_bank",
     vendor_without_approval_pct |-> "vendor_without_approval",
     bank_change_unverified_pct |-> "bank_change_unverified",
     inactive_vendor_used_pct |-> "inactive_vendor_used",
     duplicate_invoice_number_pct |-> "duplicate_invoice_number",
     invoice_without_grn_pct |-> "invoice_without_grn",
     payment_before_invoice_pct |-> "payment_before_invoice"]

TargetedFields ==
    [missing_pan_pct |-> [entity |-> "vendors", fields |-> {"pan", "gstin"}],
     duplicate_vendor_pan_pct |-> [entity |-> "vendors", fields |-> {"pan"}],
     duplicate_vendor_bank_pct |-> [entity |-> "vendors", fields |-> {"bank_account", "ifsc"}],
     vendor_without_approval_pct |->
        [entity |-> "vendors", fields |-> {"verified_by", "verification_date"}],
     bank_change_unverified_pct |->
        [entity |-> "vendors", fields |-> {"bank_change_verification"}],
     inactive_vendor_used_pct |-> [entity |-> "vendors", fields |-> {"status"}],
     duplicate_invoice_number_pct |-> [entity |-> "invoices", fields |-> {"invoice_no"}],
     invoice_without_grn_pct |-> [entity |-> "invoices", fields |-> {"grn_no"}],
     payment_before_invoice_pct |-> [entity |-> "payments", fields |-> {"payment_date"}]]

KeyOff(key) == key \notin DOMAIN acfg \/ acfg[key] = 0

NoTruthOfType(key) ==
    \A i \in DOMAIN truthRecords :
        truthRecords[i].test_step_id \notin Range(getTestStepIdsForAnomaly(AnomalyTypeOf[key]))

DatasetAsInput ==
    /\ vendors = input.vendors
    /\ purchaseOrders = input.purchaseOrders
    /\ grns = input.grns
    /\ invoices = input.invoices
    /\ payments = input.payments

\* C7 (amended): for every anomaly key that is absent from the config or 0, the
\* injector of that key writes nothing (dataset and truth list are the same before
\* and after its turn) and the returned truth list holds no record of that type;
\* with all keys absent or 0 the returned truth list is empty and the dataset
\* equals the input.  A field the type targets can still be written by another,
\* enabled type that targets the same field.
C7_DisabledKeyIsNoOp ==
    /\ (last # "none" /\ KeyOff(last)) => Snapshot = prev
    /\ pc = "injected" =>
        /\ \A key \in Range(AnomalyKeys) : KeyOff(key) => NoTruthOfType(key)
        /\ (\A key \in Range(AnomalyKeys) : KeyOff(key)) =>
                truthRecords = <<>> /\ DatasetAsInput

\* C7 as stated: for every key absent or 0, every field the type targets has, on
\* every record of the returned dataset, the value it had before the call.
C7_Original_TargetedFieldsUnchanged ==
    pc = "injected" =>
        \A key \in Range(AnomalyKeys) : KeyOff(key) =>
            LET t == TargetedFields[key] IN
            \A i \in DOMAIN Snapshot[t.entity] : \A f \in t.fields :
                Snapshot[t.entity][i][f] = input[t.entity][i][f]

\* a finished call with a key at 0, a key absent and a key that planted records
C7_Witness ==
    /\ pc = "injected"
    /\ \E key \in Range(AnomalyKeys) : key \in DOMAIN acfg /\ acfg[key] = 0
    /\ \E key \in Range(AnomalyKeys) : key \notin DOMAIN acfg
    /\ truthRecords # <<>>

\* C11: when injectAnomalies has returned, every record reachable from the arrays
\* the caller passed in has the field values it had before the call.  (The
\* caller's arrays hold the objects of the working copies, in creation order, so
\* the caller reads vendors, purchaseOrders, grns, invoices and payments.)
C11_CallerDataUnchanged == pc = "injected" => DatasetAsInput

\* the records of a list that the last injector step changed, as indices
ChangedBy(rows, before) == {i \in DOMAIN rows : rows[i] # before[i]}

\* the truth records the last step appended that name the entity
TruthsNaming(entityType, entityId) ==
    {j \in DOMAIN Appended :
        Appended[j].entity_type = entityType /\ Appended[j].entity_id = entityId}

\* the identifiers of the records of one entity type that the last step changed
ChangedIds(entityType) ==
    IF entityType = "vendor"
    THEN {vendors[i].vendor_id : i \in ChangedBy(vendors, prev.vendors)}
    ELSE IF entityType = "po"
    THEN {purchaseOrders[i].po_no : i \in ChangedBy(purchaseOrders, prev.purchaseOrders)}
    ELSE IF entityType = "invoice"
    THEN {invoices[i].invoice_no : i \in ChangedBy(invoices, prev.invoices)}
    ELSE IF entityType = "payment"
    THEN {payments[i].payment_id : i \in ChangedBy(payments, prev.payments)}
    ELSE {}

\* C12: for every record an injector changed a field of, the injector emitted
\* exactly one truth record whose entity_type and entity_id name that record;
\* every truth record has expected_flag = true; and no truth record names a
\* record the injector did not change.
C12_OneTruthPerMutation ==
    last # "none" =>
        /\ \A entityType \in {"vendor", "po", "invoice", "payment"} :
            \A id \in ChangedIds(entityType) :
                Cardinality(TruthsNaming(entityType, id)) = 1
        /\ \A j \in DOMAIN truthRecords : truthRecords[j].expected_flag
        /\ \A j \in DOMAIN Appended :
            Appended[j].entity_id \in ChangedIds(Appended[j].entity_type)

\* C13: all truth records appended by one invocation of an injector carry the
\* same test_step_id, one of the ids the anomaly key of that injector maps to.
C13_OneTestStepIdPerCall ==
    last # "none" =>
        /\ \A i, j \in DOMAIN Appended : Appended[i].test_step_id = Appended[j].test_step_id
        /\ \A i \in DOMAIN Appended :
            Appended[i].test_step_id \in Range(getTestStepIdsForAnomaly(AnomalyTypeOf[last]))

\* the invoice_date of the invoice payment i was generated for
GeneratedInvoiceDate(i) ==
    LET k == CHOOSE k \in DOMAIN input.invoices :
                input.invoices[k].invoice_no = input.payments[i].invoice_no
    IN input.invoices[k].invoice_date

PaidBeforeInvoice ==
    {i \in DOMAIN payments :
        \E d \in 1..30 : payments[i].payment_date = GeneratedInvoiceDate(i) - d}

\* C16: after the payment-before-invoice injector ran with p > 0 over P payments,
\* whatever other keys the config carries, exactly floor(P * p / 100) payments are
\* dated 1..30 days before the invoice they were generated for, and exactly that
\* many truth records were appended by the injector.
C16_PaymentBeforeInvoice ==
    (last = "payment_before_invoice_pct" /\ Pct("payment_before_invoice_pct") > 0) =>
        /\ Cardinality(PaidBeforeInvoice) =
                PctCount(Len(payments), Pct("payment_before_invoice_pct"))
        /\ Len(Appended) = PctCount(Len(payments), Pct("payment_before_invoice_pct"))

\* the taxonomy lookup of an anomaly type yields no id, or no id with metadata
LookupFails(anomalyType) ==
    \A id \in Range(getTestStepIdsForAnomaly(anomalyType)) : ~HasTestStepInfo(id)

RecordsAsBefore ==
    /\ vendors = prev.vendors
    /\ purchaseOrders = prev.purchaseOrders
    /\ grns = prev.grns
    /\ invoices = prev.invoices
    /\ payments = prev.payments

\* C15: an injector called with a positive percentage whose taxonomy lookup yields
\* no test-step id, or only ids without metadata, throws nothing, appends no truth
\* record and changes no field of any record.
C15_TaxonomySoftFail ==
    (last # "none" /\ Pct(last) > 0 /\ LookupFails(AnomalyTypeOf[last])) =>
        /\ err = "none"
        /\ Appended = <<>>
        /\ RecordsAsBefore

\* the count the last process-layer call computed from its eligible records
ProcessCount ==
    IF last = "pr_without_approval_pct"
    THEN PctCount(Cardinality(ApprovalEligible(prev.prHeaders)), prev.percentage)
    ELSE IF last = "pr_bypass_pct"
    THEN PctCount(Len(prev.purchaseOrders), prev.percentage)
    ELSE IF last = "pr_threshold_violation_pct"
    THEN PctCount(Cardinality(BelowThreshold(prev.prHeaders)), prev.percentage)
    ELSE PctCount(Len(prev.prHeaders), prev.percentage)

\* the count leaves the call nothing to plant: 0, or below 2 where a source and
\* at least one target are needed
ProcessCountTooSmall ==
    IF last = "pr_duplicate_pct" THEN ProcessCount < 2 ELSE ProcessCount = 0

\* C14: a process-layer injector called with a percentage whose count
\* floor(eligible * pct / 100) is 0 (below 2 for the duplicate injector) appends
\* no truth record and changes no record.
C14_ZeroCountSoftSkip ==
    (last # "none" /\ ProcessCountTooSmall) =>
        /\ err = "none"
        /\ Appended = <<>>
        /\ Range(prHeaders) = Range(prev.prHeaders)
        /\ purchaseOrders = prev.purchaseOrders

\* the injectors of injectProcessAnomalies that plant on requisitions, by the test
\* step of their truth records, and their place in the order it calls them in
ProcessOrder ==
    [x \in {"TS-044", "pr_without_approval_pct"} |-> 1]
    @@ [x \in {"TS-046", "pr_bypass_pct"} |-> 2]
    @@ [x \in {"TS-052", "pr_duplicate_pct"} |-> 3]
    @@ [x \in {"TS-060", "pr_threshold_violation_pct"} |-> 4]

\* the calls so far came in the order injectProcessAnomalies makes them in: what
\* was planted before the last call was planted by an earlier injector
InOrchestratorOrder ==
    /\ last \in DOMAIN ProcessOrder
    /\ \A t \in Range(prev.truthRecords) :
        ProcessOrder[t.test_step_id] < ProcessOrder[last]

\* the requisition with this number, in a list of requisitions
PRByNo(prs, prNo) == prs[CHOOSE k \in DOMAIN prs : prs[k].pr_no = prNo]

\* C30: within one injectProcessAnomalies call, once an injector has planted a
\* value on a record and appended its truth record, no later injector of the call
\* overwrites that planted field: every field a truth record names still has the
\* value it had when the later injector was entered.
C30_PlantedMutationsKept ==
    InOrchestratorOrder =>
        \A t \in Range(prev.truthRecords) :
            t.entity_type = "pr" =>
                \A f \in Range(t.planted_fields) :
                    PRByNo(prHeaders, t.entity_id)[f] = PRByNo(prev.prHeaders, t.entity_id)[f]

----------------------------------------------------------------------------
(* Properties of generateBaseData and the constraint pass.                 *)

ResolvesPO(poNo) == \E i \in DOMAIN purchaseOrders : purchaseOrders[i].po_no = poNo
ResolvesGRN(grnNo) == \E i \in DOMAIN grns : grns[i].grn_no = grnNo
ResolvesInvoice(invoiceNo) == \E i \in DOMAIN invoices : invoices[i].invoice_no = invoiceNo

ReferencesResolve ==
    /\ \A i \in DOMAIN grns : ResolvesPO(grns[i].po_no)
    /\ \A i \in DOMAIN invoices :
        /\ invoices[i].po_no # Undef => ResolvesPO(invoices[i].po_no)
        /\ invoices[i].grn_no # Undef => ResolvesGRN(invoices[i].grn_no)
    /\ \A i \in DOMAIN payments : ResolvesInvoice(payments[i].invoice_no)

\* C2: in the dataset of generateBaseData followed by applyConstraints every GRN's
\* po_no, every invoice's po_no and grn_no (when set) and every payment's invoice_no
\* is the key of a record of the dataset.
C2_ReferentialIntegrity == pc = "constrained" => ReferencesResolve

DatesOrdered ==
    /\ \A g \in Range(grns) : \A po \in Range(purchaseOrders) :
        po.po_no = g.po_no => g.grn_date >= po.po_date
    /\ \A inv \in Range(invoices) :
        /\ \A po \in Range(purchaseOrders) :
            po.po_no = inv.po_no => inv.invoice_date >= po.po_date
        /\ \A g \in Range(grns) :
            g.grn_no = inv.grn_no => inv.invoice_date >= g.grn_date
    /\ \A pay \in Range(payments) : \A inv \in Range(invoices) :
        inv.invoice_no = pay.invoice_no => pay.payment_date >= inv.invoice_date

\* C3: with no anomalies configured, every GRN is dated on or after its PO, every
\* invoice on or after its PO and its GRN (when it has one), every payment on or
\* after its invoice; in the output of the generators and after applyConstraints.
C3_DateOrdering == DatesOrdered

\* a constrained dataset with a GRN, an invoice on that GRN and its payment, the
\* GRN dated after its PO
C3_Witness ==
    /\ pc = "constrained"
    /\ \E g \in Range(grns), inv \in Range(invoices), pay \in Range(payments),
          po \in Range(purchaseOrders) :
        /\ po.po_no = g.po_no
        /\ g.grn_date > po.po_date
        /\ inv.grn_no = g.grn_no
        /\ pay.invoice_no = inv.invoice_no

GenerationErrors == {"No active vendors available for PO generation", "heap out of memory"}

\* C9: for a configuration with positive counts, startYear <= endYear and an active
\* vendor, generateBaseData ends without error with exactly vendorCount vendors and
\* exactly poCount purchase orders (it never holds more than poCount of them).
C9_GenerationSucceeds ==
    (/\ pc # "base_call"
     /\ cfg.vendorCount > 0 /\ cfg.poCount > 0 /\ cfg.startYear <= cfg.endYear
     /\ ActiveVendors(vendors) # <<>>) =>
        /\ err \notin GenerationErrors
        /\ Len(purchaseOrders) <= cfg.poCount
        /\ pc \in {"grns_call", "invoices_call", "payments_call", "generated"} =>
            Len(vendors) = cfg.vendorCount /\ Len(purchaseOrders) = cfg.poCount

\* the vendor ids of the top cohort: the topVendorCount earliest-created vendors
TopCohort ==
    LET sortedVendors == SortBy(Identity(Len(vendors)),
                                [i \in DOMAIN vendors |-> vendors[i].created_date])
    IN {vendors[sortedVendors[j]].vendor_id :
            j \in 1..Max(1, PctCount(Len(vendors), TopVendorSharePct))}

ConstraintPassEnded == pc \in {"constrained", "failed"} /\ ctx.constraintPasses = 1

\* C24: for a non-empty vendor list and N purchase orders, the constraint pass ends
\* without an error and leaves exactly floor(N * topVendorRatio) purchase orders on
\* vendors of the top cohort.
C24_VendorConcentration ==
    (ConstraintPassEnded /\ Len(vendors) > 0) =>
        /\ err = "none"
        /\ Cardinality({i \in DOMAIN purchaseOrders :
                            purchaseOrders[i].vendor_id \in TopCohort})
                = PctCount(Len(purchaseOrders), TopVendorRatioPct)

\* C26: for every dataset of the base generators, validateDataset called after
\* applyConstraints reports zero violations in each of the four categories it
\* recomputes (vendorDistribution, goodsServiceGRN, invoiceAmount, paymentDueDate),
\* and validateDataset changes no field and no array of the dataset.
C26_ValidatorAgreesWithNormalizer ==
    pc = "validated" =>
        /\ ctx.validation.vendorDistribution = 0
        /\ ctx.validation.goodsServiceGRN = 0
        /\ ctx.validation.invoiceAmount = 0
        /\ ctx.validation.paymentDueDate = 0

\* every GRN and invoice has the vendor of the purchase order it references, every
\* payment the vendor of its invoice
VendorsAgree ==
    /\ \A g \in Range(grns) : \A po \in Range(purchaseOrders) :
        po.po_no = g.po_no => g.vendor_id = po.vendor_id
    /\ \A inv \in Range(invoices) : \A po \in Range(purchaseOrders) :
        po.po_no = inv.po_no => inv.vendor_id = po.vendor_id
    /\ \A pay \in Range(payments) : \A inv \in Range(invoices) :
        inv.invoice_no = pay.invoice_no => pay.vendor_id = inv.vendor_id

\* C28: before anomaly injection every GRN and every invoice carries the vendor_id
\* of the purchase order it references and every payment the vendor_id of its
\* invoice, after generation and still after applyConstraints has reassigned the
\* vendors of purchase orders.
C28_VendorConsistency ==
    pc \in {"generated", "constrained", "validated"} => VendorsAgree

\* the vendor of the run's list a vendor_id resolves to is active
ResolvesToActiveVendor(vendorId) ==
    \E k \in DOMAIN vendors : vendors[k].vendor_id = vendorId /\ IsActive(vendors[k])

\* C29: in every state before anomaly injection, after purchase-order generation
\* and after applyConstraints, the vendor_id of every purchase order resolves to a
\* vendor of the run's vendor list whose status is active.
C29_OnlyActiveVendorsTransact ==
    pc \in {"po_loop", "grns_call", "invoices_call", "payments_call", "generated",
            "constrained", "validated", "chunks", "first_chunks"} =>
        \A po \in Range(purchaseOrders) : ResolvesToActiveVendor(po.vendor_id)

----------------------------------------------------------------------------
(* Properties of runGeneration: manifest, invoice totals, fail-fast.       *)

RECURSIVE SumOver(_, _)
SumOver(f, keys) ==
    IF keys = {} THEN 0
    ELSE LET k == CHOOSE x \in keys : TRUE IN f[k] + SumOver(f, keys \ {k})

TruthCount(t) == Cardinality({i \in DOMAIN truthRecords : truthRecords[i].test_step_id = t})

\* C6: in the manifest of a finished run, the count recorded for a test-step id is
\* the number of truth records carrying that id, no id is recorded without a truth
\* record, every truth record's id is recorded, and the recorded counts add up to
\* counts.truthRecords, the number of truth records.
C6_ManifestMatchesTruth ==
    pc = "done" =>
        LET byTestStep == manifest.expectedExceptionCountsByTestStep IN
        /\ \A t \in DOMAIN byTestStep : byTestStep[t] = TruthCount(t) /\ byTestStep[t] > 0
        /\ \A i \in DOMAIN truthRecords : truthRecords[i].test_step_id \in DOMAIN byTestStep
        /\ SumOver(byTestStep, DOMAIN byTestStep) = manifest.counts.truthRecords
        /\ manifest.counts.truthRecords = Len(truthRecords)

\* a finished run whose truth records carry two test-step ids, one of them twice
C6_Witness ==
    /\ pc = "done"
    /\ \E t, u \in DOMAIN manifest.expectedExceptionCountsByTestStep :
        /\ t # u
        /\ manifest.expectedExceptionCountsByTestStep[t] >= 2
        /\ TruthCount(t) >= 2
        /\ TruthCount(u) >= 1

\* C8: every invoice of a finished run has total_amount equal to invoice_amount +
\* tax_amount rounded to two decimals.
C8_InvoiceTotalRounded ==
    pc = "done" =>
        \A inv \in Range(invoices) :
            inv.total_amount = Round2(inv.invoice_amount + inv.tax_amount)

\* the part of C8 about the pass itself: after applyInvoiceAmountConstraints every
\* invoice total is the rounded sum
ConstrainedTotalsRounded ==
    pc = "constrained" =>
        \A inv \in Range(invoices) :
            inv.total_amount = Round2(inv.invoice_amount + inv.tax_amount)

\* the vendors as generated, none of them active
NoVendorGeneratedActive ==
    /\ ctx.vendorDraw # "none"
    /\ \A i \in 1..cfg.vendorCount : ~PatternShape(ctx.vendorDraw, i).active

\* purchase-order generation has been entered
POGenerationEntered ==
    \/ pc \in {"po_loop", "grns_call", "invoices_call", "payments_call", "generated",
               "constrained", "validated", "failed"}
    \/ pc = "chunks" /\ ctx.chunkIndex > 0
    \/ pc \in {"inject_call", "inject", "injected", "manifest_call", "done"}

\* C10: when no generated vendor is active, purchase-order generation raises an
\* error and leaves no partial dataset, on the generateBaseData path and on the
\* chunked path alike.
C10_FailFastWithoutActiveVendor ==
    (NoVendorGeneratedActive /\ POGenerationEntered) =>
        /\ err = "No active vendors available for PO generation"
        /\ pc = "failed"
        /\ purchaseOrders = <<>>

\* C17: in every run the constraint pass has executed exactly once when anomaly
\* injection starts, and exactly once when the run ends.
C17_ConstraintPassOnceBeforeInjection ==
    pc \in {"inject", "injected", "done"} => ctx.constraintPasses = 1

IdField == [vendor |-> "vendor_id", po |-> "po_no", invoice |-> "invoice_no",
            payment |-> "payment_id"]
FileOf == [vendor |-> "vendors", po |-> "purchaseOrders", invoice |-> "invoices",
           payment |-> "payments"]
RecordsOf == [vendor |-> vendors, po |-> purchaseOrders, invoice |-> invoices,
              payment |-> payments]

\* the truth record a row of the truth output was serialized from
TruthOfRow(row) == [f \in DOMAIN row |-> row[f][1]]

\* the row handed to the sink for the entity truth record t names carries the planted
\* fields as the entity holds them (a planted field that is no column of the entity's
\* file, as vendor_status, is not compared)
SinkCarries(t) ==
    \A i \in DOMAIN RecordsOf[t.entity_type] :
        LET rec == RecordsOf[t.entity_type][i] IN
        rec[IdField[t.entity_type]] = t.entity_id =>
            \E r \in DOMAIN written[FileOf[t.entity_type]] :
                LET row == written[FileOf[t.entity_type]][r] IN
                /\ row[IdField[t.entity_type]] = <<t.entity_id>>
                /\ \A k \in DOMAIN t.planted_fields :
                    t.planted_fields[k] \in DOMAIN row =>
                        row[t.planted_fields[k]] = CsvRow(rec)[t.planted_fields[k]]

\* C18: at the end of a run, for every row of the truth output, the entity row handed
\* to the sink carries the mutation the truth record describes.
C18_TruthSynchronizedWithSink ==
    pc = "done" => \A j \in DOMAIN written.truth : SinkCarries(TruthOfRow(written.truth[j]))

\* C19: once runGeneration has reported completion, every row written to every CSV
\* stream is on disk and the streams have finished.
C19_DurableBeforeCompletion ==
    pc = "done" => (streams.finished /\ \A file \in Files : Pending(file) = 0)

----------------------------------------------------------------------------
(* Properties of generateChunkedData under two chunk sizes.                *)

\* C20: two consumptions of generateChunkedData that differ only in chunkSize yield
\* the same set of purchase orders, GRNs, invoices and payments.
C20_ChunkSizeLeavesContentAlone ==
    pc = "chunked_done" =>
        /\ Range(purchaseOrders) = Range(first.purchaseOrders)
        /\ Range(grns) = Range(first.grns)
        /\ Range(invoices) = Range(first.invoices)
        /\ Range(payments) = Range(first.payments)

\* no two records of a list carry the same value in the field
UniqueIn(rows, field) ==
    \A i, j \in DOMAIN rows : rows[i][field] = rows[j][field] => i = j

\* C21: over the chunks yielded so far, the sequence number of the k-th purchase order
\* is k, and no po_no, grn_no, invoice_no or payment_id occurs twice (within one chunk
\* the identifiers of a list are numbered consecutively, so a repeated identifier is
\* one generated again in another chunk).
C21_SequenceContinuity ==
    pc \in {"first_chunks", "second_chunks", "chunked_done"} =>
        /\ \A k \in DOMAIN purchaseOrders : purchaseOrders[k].po_no[3] = k
        /\ UniqueIn(purchaseOrders, "po_no")
        /\ UniqueIn(grns, "grn_no")
        /\ UniqueIn(invoices, "invoice_no")
        /\ UniqueIn(payments, "payment_id")

\* the records of a list yielded before the last chunk
Earlier(all, ofChunk) == SubSeq(all, 1, Len(all) - Len(ofChunk))

Names(rows, field, id) == \E i \in DOMAIN rows : rows[i][field] = id

\* every reference of the chunk resolves inside the chunk
ChunkLocal(chunk) ==
    /\ \A i \in DOMAIN chunk.grns : Names(chunk.purchaseOrders, "po_no", chunk.grns[i].po_no)
    /\ \A i \in DOMAIN chunk.invoices :
        /\ Names(chunk.purchaseOrders, "po_no", chunk.invoices[i].po_no)
        /\ chunk.invoices[i].grn_no # Undef =>
                Names(chunk.grns, "grn_no", chunk.invoices[i].grn_no)
    /\ \A i \in DOMAIN chunk.payments :
        Names(chunk.invoices, "invoice_no", chunk.payments[i].invoice_no)

\* no reference of the chunk names a PO, GRN or invoice of an earlier chunk
NothingEarlierNamed(chunk) ==
    LET earlierPOs == Earlier(purchaseOrders, chunk.purchaseOrders)
        earlierGRNs == Earlier(grns, chunk.grns)
        earlierInvoices == Earlier(invoices, chunk.invoices)
    IN
    /\ \A i \in DOMAIN chunk.grns : ~Names(earlierPOs, "po_no", chunk.grns[i].po_no)
    /\ \A i \in DOMAIN chunk.invoices :
        /\ ~Names(earlierPOs, "po_no", chunk.invoices[i].po_no)
        /\ chunk.invoices[i].grn_no # Undef =>
                ~Names(earlierGRNs, "grn_no", chunk.invoices[i].grn_no)
    /\ \A i \in DOMAIN chunk.payments :
        ~Names(earlierInvoices, "invoice_no", chunk.payments[i].invoice_no)

\* C22: every GRN and invoice of a yielded chunk references a PO of that chunk, every
\* grn_no set on an invoice names a GRN of that chunk, every payment references an
\* invoice of that chunk, and none of these references names a PO, GRN or invoice of
\* another chunk.
C22_ChunkLocality ==
    (pc \in {"first_chunks", "second_chunks"} /\ ctx.chunkIndex > 0) =>
        /\ ChunkLocal(ctx.chunk)
        /\ NothingEarlierNamed(ctx.chunk)

\* a second chunk with a GRN, an invoice on that GRN and a payment, after a first
\* chunk that had an invoice too
C22_Witness ==
    /\ pc = "first_chunks"
    /\ ctx.chunkIndex = 2
    /\ Len(ctx.chunk.grns) > 0
    /\ \E i \in DOMAIN ctx.chunk.invoices : ctx.chunk.invoices[i].grn_no # Undef
    /\ Len(ctx.chunk.payments) > 0
    /\ Len(Earlier(invoices, ctx.chunk.invoices)) > 0

\* the identifiers of a list: the year prefix is the year of the record's own date,
\* and the sequence numbers under each year prefix are 1..k for the k records of it
PerYearBuckets(rows, idField, dateField) ==
    \A i \in DOMAIN rows :
        LET y == rows[i][idField][2]
            ofYear == {j \in DOMAIN rows : rows[j][idField][2] = y}
        IN /\ y = getFullYear(rows[i][dateField])
           /\ {rows[j][idField][3] : j \in ofYear} = 1..Cardinality(ofYear)

\* C23: in the output of a whole generateChunkedData run, the PO, GRN, invoice and
\* payment identifiers carry the year of the record's own date, and the sequence
\* numbers under each year are exactly 1..k.
C23_PerYearSequenceBuckets ==
    pc = "chunked_done" =>
        /\ PerYearBuckets(purchaseOrders, "po_no", "po_date")
        /\ PerYearBuckets(grns, "grn_no", "grn_date")
        /\ PerYearBuckets(invoices, "invoice_no", "invoice_date")
        /\ PerYearBuckets(payments, "payment_id", "payment_date")

----------------------------------------------------------------------------
(* Properties of the extended entities.                                    *)

\* the purchase order of the output with this number
POByNo(poNo) == purchaseOrders[CHOOSE k \in DOMAIN purchaseOrders :
                                    purchaseOrders[k].po_no = poNo]

\* the date of a requisition: pr_date, or request_date where the chunked generator
\* made it
PRDate(pr) == IF "pr_date" \in DOMAIN pr THEN pr.pr_date ELSE pr.request_date

\* the purchase order numbers a requisition is linked to, by its header or a line
LinkedPONos(pr) ==
    (IF "po_no" \in DOMAIN pr /\ pr.po_no # Undef THEN {pr.po_no} ELSE {})
    \cup {prLines[k].po_no : k \in {m \in DOMAIN prLines :
                                        /\ prLines[m].pr_no = pr.pr_no
                                        /\ "po_no" \in DOMAIN prLines[m]
                                        /\ prLines[m].po_no # Undef}}

\* C25: without injected anomalies every requisition linked to a purchase order, by
\* po_no on its header or on its last line, is dated on or before the po_date of
\* that order, whether generatePRHeadersAndLines or generateChunkedData made it.
C25_PRPrecedesPO ==
    \A i \in DOMAIN prHeaders : \A poNo \in LinkedPONos(prHeaders[i]) :
        PRDate(prHeaders[i]) <= POByNo(poNo).po_date

\* C27: in the output of generateBaseData without anomalies every primary
\* identifier is unique within its entity type: vendor_id, po_no, grn_no,
\* invoice_no, payment_id, pr_no, pr_line_id and quotation_id; no two quotations,
\* those of different purchase orders of one year included, share a quotation_id.
C27_IdentifiersUnique ==
    pc = "extended_done" =>
        /\ UniqueIn(vendors, "vendor_id") /\ UniqueIn(purchaseOrders, "po_no")
        /\ UniqueIn(grns, "grn_no") /\ UniqueIn(invoices, "invoice_no")
        /\ UniqueIn(payments, "payment_id") /\ UniqueIn(prHeaders, "pr_no")
        /\ UniqueIn(prLines, "pr_line_id") /\ UniqueIn(quotations, "quotation_id")

----------------------------------------------------------------------------
(* Properties of two executions.                                           *)

\* C1: two executions with the same configuration yield identical entities: the
\* vendor list of the second execution is that of the first.
C1_Determinism == pc = "det_done" => vendors = first

====
